---- MODULE Spec2Model ----
(***************************************************************************)
(* Model of the log delivery pipeline of xtdlib/log: the asynchronous      *)
(* VictoriaLogsHandler (RemoteSink: bounded channel + one worker           *)
(* goroutine), the consoleHandler (ConsoleSink) and the multiHandler       *)
(* (Dispatcher) that fans a record out to its member handlers.             *)
(***************************************************************************)
EXTENDS Integers, Sequences, FiniteSets, TLC

\* ---------------------------------------------------------------- bounds
MaxCalls == 2
MaxSinks == 2
MaxConsoles == 3

\* ------------------------------------------------------ program constants
QueueCap == 2000
LevelTrace == -8
LevelDebug == -4
LevelInfo == 0
LevelWarn == 4
LevelError == 8
LevelEmergency == 12
NamedLevels == {LevelTrace, LevelDebug, LevelInfo, LevelWarn, LevelError, LevelEmergency}

\* A burst of this many Handle calls on the new handler, made by producer p1
\* before the worker goroutine is first scheduled, fills the channel.
Backlog == QueueCap

Nil == "nil"
EncodeErr == "failed to encode log entry"
WriteErr == "write error"
createLineBytes == "{\"create\":{}}"
DefaultEndpoint == "http://oci-aca-001:9428/insert/elasticsearch/_bulk"
BadEndpoint == ":bad"
hostname == "host"
appName == "app"

\* the goroutines of the application that log
Producers == {"p1", "p2"}

\* the worker is followed for as many payloads as there are calls
MaxSends == MaxCalls

VARIABLES
  sinks,      \* heap of VictoriaLogsHandler values: endpoint, attrs, group, logChan
  chans,      \* channels made by make(chan []byte, 2000): chans[c] is the buffered content
  workers,    \* goroutines started by `go h.worker()`: chan, endpoint, pc, data, last
  requests,   \* POST requests issued through client.Do, in issue order
  consoles,   \* heap of consoleHandler values
  out,        \* the io.Writer the console handlers write to: lines written
  multis,     \* heap of multiHandler values
  pc,         \* per producer: position inside the Handle call it is running
  frame,      \* per producer: locals of the running call
  calls,      \* number of Handle calls started by producers
  vlCalls,    \* number of VictoriaLogsHandler.Handle invocations
  accepted,   \* number of payloads the channels accepted
  dropped,    \* messages of the payloads the select dropped
  enq,        \* the payloads the channels accepted from the calls, in order
  arrays,     \* backing arrays of the []slog.Attr slices of the console handlers
  probe,      \* the last call made by the application that the properties observe
  defaultLogger, \* the handler of the package's default logger
  logFile,    \* the package's log file: none, open or closed
  closed,     \* the channels on which close() was called
  bufs,       \* backing arrays of the byte buffers and of the payloads
  pool        \* bufferPool: the buffers put back and not yet taken

vars == <<sinks, chans, workers, requests, consoles, out, multis, pc, frame,
          calls, vlCalls, accepted, dropped, enq, arrays, probe,
          defaultLogger, logFile, closed, bufs, pool>>

\* ------------------------------------------------------------ attributes
StrAttr(k, v) == [key |-> k, kind |-> "string", val |-> v]
\* an attribute whose value encoding/json cannot marshal (a chan, a func)
BadAttr == [key |-> "ch", kind |-> "unsupported", val |-> "chan"]
EmptyAttr == [key |-> "", kind |-> "any", val |-> "nil"]
\* slog.Group(k, as...)
GroupAttr(k, as) == [key |-> k, kind |-> "group", val |-> as]

BoundAttrs == {<<StrAttr("svc", "api")>>}
GroupNames == {"req"}
RecordShapes == {[level |-> LevelInfo, attrs |-> <<>>],
                 [level |-> LevelDebug, attrs |-> <<>>],
                 [level |-> LevelInfo, attrs |-> <<BadAttr>>]}
\* VictoriaLogsHandler.Handle never branches on the level (Enabled is
\* constantly true, getLevelName only names it): its direct callers draw a
\* record that serializes and one that does not
RemoteShapes == {x \in RecordShapes : x.level = LevelInfo}


\* ------------------------------------------------- VictoriaLogsHandler
MapPut(m, k, v) == [x \in DOMAIN m \cup {k} |-> IF x = k THEN v ELSE m[x]]

str(base, val) ==
  IF val = 0 THEN base
  ELSE base \o (IF val > 0 THEN "+" ELSE "") \o ToString(val)

LevelString(l) ==
  IF l < LevelInfo THEN str("DEBUG", l - LevelDebug)
  ELSE IF l < LevelWarn THEN str("INFO", l - LevelInfo)
  ELSE IF l < LevelError THEN str("WARN", l - LevelWarn)
  ELSE str("ERROR", l - LevelError)

levelNames ==
  [l \in {LevelTrace, LevelDebug, LevelInfo, LevelWarn, LevelError, LevelEmergency} |->
     CASE l = LevelTrace -> "TRACE"
       [] l = LevelDebug -> "DEBUG"
       [] l = LevelInfo -> "INFO"
       [] l = LevelWarn -> "WARN"
       [] l = LevelError -> "ERROR"
       [] l = LevelEmergency -> "EMERGENCY"]

getLevelName(level) ==
  IF level \in DOMAIN levelNames THEN levelNames[level] ELSE LevelString(level)

IsZeroAttr(a) == a.key = "" /\ a.kind = "any" /\ a.val = "nil"

\* an addAttrToMap that flattens a group into dotted keys of the same map
RECURSIVE addAttrToMapFlat(_, _, _)
RECURSIVE addAttrsToMapFlat(_, _, _)
addAttrToMapFlat(m, a, group) ==
  IF IsZeroAttr(a) THEN m
  ELSE LET key == IF group # "" THEN group \o "." \o a.key ELSE a.key
       IN IF a.kind = "group"
          THEN addAttrsToMapFlat(m, a.val, key)
          ELSE MapPut(m, key, [kind |-> a.kind, val |-> a.val])

addAttrsToMapFlat(m, as, group) ==
  IF as = <<>> THEN m
  ELSE addAttrsToMapFlat(addAttrToMapFlat(m, Head(as), group), Tail(as), group)

RECURSIVE addAttrToMap(_, _, _)
RECURSIVE addAttrsToMap(_, _, _)
addAttrToMap(m, a, group) ==
  IF IsZeroAttr(a) THEN m
  ELSE LET key == IF group # "" THEN group \o "." \o a.key ELSE a.key
       IN IF a.kind = "group"
          THEN MapPut(m, key, [kind |-> "map", val |-> addAttrsToMap(<<>>, a.val, "")])
          ELSE MapPut(m, key, [kind |-> a.kind, val |-> a.val])

\* the range loops that feed addAttrToMap
addAttrsToMap(m, as, group) ==
  IF as = <<>> THEN m
  ELSE addAttrsToMap(addAttrToMap(m, Head(as), group), Tail(as), group)

\* the map Handle fills before encoding
BuildEntry(h, r) ==
  LET std == [k \in {"_msg", "_time", "level", "host", "app"} |->
                CASE k = "_msg" -> [kind |-> "msg", val |-> r.msg]
                  [] k = "_time" -> [kind |-> "RFC3339Nano", val |-> r.time]
                  [] k = "level" -> [kind |-> "string", val |-> getLevelName(r.level)]
                  [] k = "host" -> [kind |-> "string", val |-> hostname]
                  [] k = "app" -> [kind |-> "string", val |-> appName]]
      src == IF r.pc # 0
             THEN MapPut(MapPut(MapPut(std,
                    "source.file", [kind |-> "frame.File", val |-> r.pc]),
                    "source.line", [kind |-> "frame.Line", val |-> r.pc]),
                    "source.function", [kind |-> "frame.Function", val |-> r.pc])
             ELSE std
  IN addAttrsToMap(addAttrsToMap(src, h.attrs, h.group), r.attrs, h.group)

\* json.Encoder.Encode fails on a value it cannot marshal
RECURSIVE Encodable(_)
Encodable(entry) ==
  \A k \in DOMAIN entry :
     /\ entry[k].kind # "unsupported"
     /\ entry[k].kind = "map" => Encodable(entry[k].val)

\* the bytes Handle copies out of the pooled buffer: the create line, then
\* the encoded entry (tagged with enqueue number n and producer p)
Payload(entry, n, p) == [body |-> <<createLineBytes, entry>>, seq |-> n, by |-> p]

\* The content of a channel is held as the burst payloads still buffered
\* (numbers lo..hi of the initial burst, oldest first) followed by the
\* payloads sent later (tail): a channel filled by the burst is then a small
\* value.  The burst is Handle called hi times on the new handler, records
\* with no attributes, by producer 1.
BurstPayload(i, b) ==
  Payload(BuildEntry([attrs |-> <<>>, group |-> ""],
                     [msg |-> i - b, time |-> i - b, level |-> LevelInfo, pc |-> 0,
                      attrs |-> <<>>]), i, "p1")

\* make(chan []byte, 2000)
MakeChan == [lo |-> 1, hi |-> 0, tail |-> <<>>]

ChanLen(q) == (q.hi - q.lo + 1) + Len(q.tail)

ChanAt(q, i) ==
  IF i <= q.hi - q.lo + 1 THEN BurstPayload(q.lo + i - 1, q.hi)
  ELSE q.tail[i - (q.hi - q.lo + 1)]

\* the channel without its oldest payload
ChanRest(q) ==
  IF q.lo <= q.hi THEN [q EXCEPT !.lo = @ + 1] ELSE [q EXCEPT !.tail = Tail(@)]

\* a plain send `h.logChan <- data`: it waits while the channel is full
TrySendBlocking(q, data) ==
  IF ChanLen(q) < QueueCap
  THEN [q |-> [q EXCEPT !.tail = Append(@, data)], wait |-> FALSE]
  ELSE [q |-> q, wait |-> TRUE]

\* a channel that takes one payload more than its capacity
TrySendOffByOne(q, data) ==
  IF ChanLen(q) <= QueueCap
  THEN [q |-> [q EXCEPT !.tail = Append(@, data)], wait |-> FALSE]
  ELSE [q |-> q, wait |-> FALSE]

\* select { case h.logChan <- data: default: }: the channel afterwards, and
\* whether the statement has to wait for room (never, with a default case)
TrySend(q, data) ==
  IF ChanLen(q) < QueueCap
  THEN [q |-> [q EXCEPT !.tail = Append(@, data)], wait |-> FALSE]
  ELSE [q |-> q, wait |-> FALSE]

\* VictoriaLogsHandler.Handle on handler value h with channel content q;
\* n and p tag the payload with its enqueue number and its producer
VLHandle(h, r, q, n, p) ==
  LET entry == BuildEntry(h, r)
  IN IF ~Encodable(entry)
     THEN [err |-> EncodeErr, q |-> q, wait |-> FALSE]
     ELSE LET snd == TrySend(q, Payload(entry, n, p))
          IN [err |-> Nil, q |-> snd.q, wait |-> snd.wait]

VLEnabled(h, level) == TRUE

\* a group name that replaces the group of the receiver
NewQueueGroupReplace(group, name) == name

NewQueueGroup(group, name) == IF group # "" THEN group \o "." \o name ELSE name

\* http.NewRequest fails when the endpoint does not parse as a URL
URLValid(endpoint) == endpoint # BadEndpoint

\* NewVictoriaLogsHandler: the new handler, the channel it makes and the
\* worker goroutine it starts, given the channels and goroutines so far
NewVictoriaLogsHandler(endpoint, cs, ws) ==
  LET ep == IF endpoint = "" THEN DefaultEndpoint ELSE endpoint
  IN [h |-> [endpoint |-> ep, attrs |-> <<>>, group |-> "", logChan |-> Len(cs) + 1],
      chans |-> Append(cs, MakeChan),
      workers |-> Append(ws, [chan |-> Len(cs) + 1, endpoint |-> ep, pc |-> "recv",
                              last |-> "none", taken |-> 0])]

\* a WithAttrs that puts the group of the receiver into the keys of the
\* attributes it binds
VLWithAttrsQualified(h, attrs, cs, ws) ==
  [h |-> [endpoint |-> h.endpoint,
          attrs |-> h.attrs \o [i \in DOMAIN attrs |->
                      [attrs[i] EXCEPT !.key = IF h.group # "" THEN h.group \o "." \o @
                                                ELSE @]],
          group |-> h.group, logChan |-> h.logChan],
   chans |-> cs, workers |-> ws]

\* a WithAttrs that gives the derived handler a channel of its own
VLWithAttrsOwnChan(h, attrs, cs, ws) ==
  [h |-> [endpoint |-> h.endpoint, attrs |-> h.attrs \o attrs, group |-> h.group,
          logChan |-> Len(cs) + 1],
   chans |-> Append(cs, MakeChan), workers |-> ws]

\* WithAttrs: the handler it returns; it makes no channel and starts no goroutine
VLWithAttrs(h, attrs, cs, ws) ==
  [h |-> [endpoint |-> h.endpoint, attrs |-> h.attrs \o attrs, group |-> h.group,
          logChan |-> h.logChan],
   chans |-> cs, workers |-> ws]

\* a WithGroup that starts one more worker on the shared channel
VLWithGroupNewWorker(h, name, cs, ws) ==
  [h |-> [endpoint |-> h.endpoint, attrs |-> h.attrs,
          group |-> NewQueueGroup(h.group, name), logChan |-> h.logChan],
   chans |-> cs,
   workers |-> Append(ws, [chan |-> h.logChan, endpoint |-> h.endpoint, pc |-> "recv",
                           last |-> "none", taken |-> 0])]

\* a WithGroup that builds the derived handler as NewVictoriaLogsHandler
\* would: a channel and a worker of its own
VLWithGroupOwnQueue(h, name, cs, ws) ==
  [h |-> [endpoint |-> h.endpoint, attrs |-> h.attrs,
          group |-> NewQueueGroup(h.group, name), logChan |-> Len(cs) + 1],
   chans |-> Append(cs, MakeChan),
   workers |-> Append(ws, [chan |-> Len(cs) + 1, endpoint |-> h.endpoint, pc |-> "recv",
                           last |-> "none", taken |-> 0])]

\* WithGroup: the handler it returns; it makes no channel and starts no goroutine
VLWithGroup(h, name, cs, ws) ==
  [h |-> [endpoint |-> h.endpoint, attrs |-> h.attrs,
          group |-> NewQueueGroup(h.group, name), logChan |-> h.logChan],
   chans |-> cs, workers |-> ws]

\* a worker that returns after its first request
WorkerNextOnce(o) == "done"

\* a worker that returns on an error instead of continuing
WorkerNextStopOnError(o) == IF o \in {"newreq_err", "do_err"} THEN "done" ELSE "recv"

\* where the worker loop goes after an iteration that ended with outcome o:
\* `continue` on an error, the end of the loop body otherwise
WorkerNext(o) == "recv"

\* a receive that takes the newest payload
ChanRecvNewest(q) ==
  [data |-> ChanAt(q, ChanLen(q)),
   q |-> IF Len(q.tail) > 0 THEN [q EXCEPT !.tail = SubSeq(@, 1, Len(@) - 1)]
         ELSE [q EXCEPT !.hi = @ - 1]]

\* a receive that leaves the payload in the channel, so that it is sent again
ChanRecvKeep(q) == [data |-> ChanAt(q, 1), q |-> q]

\* a receive that takes two payloads when it can and joins them in one body
ChanRecvBatch(q) ==
  IF ChanLen(q) >= 2
  THEN [data |-> [ChanAt(q, 1) EXCEPT !.body = @ \o ChanAt(q, 2).body],
        q |-> ChanRest(ChanRest(q))]
  ELSE [data |-> ChanAt(q, 1), q |-> ChanRest(q)]

\* `for data := range h.logChan` receives the oldest buffered payload
ChanRecv(q) == [data |-> ChanAt(q, 1), q |-> ChanRest(q)]

\* ------------------------------------------------------- consoleHandler
\* a []slog.Attr value: backing array (0: none), length, capacity
NilSlice == [arr |-> 0, len |-> 0, cap |-> 0]

\* the elements a slice holds, read from the backing arrays arrs
SliceValIn(arrs, sl) == IF sl.len = 0 THEN <<>> ELSE SubSeq(arrs[sl.arr], 1, sl.len)
SliceVal(sl) == SliceValIn(arrays, sl)

Unlocked == "unlocked"

newConsoleHandler(w, opts) ==
  [opts |-> opts, mu |-> Unlocked, out |-> w, attrs |-> NilSlice, group |-> ""]

NilOpts == [hasLevel |-> FALSE, Level |-> 0, AddSource |-> FALSE]

\* an Enabled that rejects the minimum level itself
consoleEnabledAbove(h, level) ==
  LET minLevel == IF h.opts.hasLevel THEN h.opts.Level ELSE LevelInfo
  IN level > minLevel

consoleEnabled(h, level) ==
  LET minLevel == IF h.opts.hasLevel THEN h.opts.Level ELSE LevelInfo
  IN level >= minLevel

getLevelText(level) ==
  CASE level = LevelTrace -> "TRAC"
    [] level = LevelDebug -> "DBG "
    [] level = LevelInfo -> "INFO"
    [] level = LevelWarn -> "WARN"
    [] level = LevelError -> "ERR "
    [] level = LevelEmergency -> "EMER"
    [] OTHER -> LevelString(level)

RECURSIVE appendAttr(_, _, _)
RECURSIVE appendGroup(_, _, _, _)
appendAttr(buf, a, group) ==
  IF IsZeroAttr(a) THEN buf
  ELSE LET key == IF group # "" THEN group \o "." \o a.key ELSE a.key
       IN CASE a.kind = "string" -> buf \o key \o "=" \o "\"" \o a.val \o "\""
            [] a.kind = "group" -> appendGroup(buf \o key \o "=" \o "{", a.val, key, TRUE) \o "}"
            [] OTHER -> buf \o key \o "=" \o a.val

\* the loop over a.Value.Group() inside appendAttr
appendGroup(buf, as, key, first) ==
  IF as = <<>> THEN buf
  ELSE appendGroup(appendAttr(IF first THEN buf ELSE buf \o " ", Head(as), key),
                   Tail(as), key, FALSE)

RECURSIVE appendAttrs(_, _, _)
appendAttrs(buf, as, group) ==
  IF as = <<>> THEN buf
  ELSE appendAttrs(appendAttr(buf \o " ", Head(as), group), Tail(as), group)

\* the line consoleHandler.Handle formats: level text, message, the record's
\* attributes, the handler's attributes, the source suffix
FormatLine(h, r) ==
  [time |-> r.time,
   level |-> getLevelText(r.level),
   msg |-> r.msg,
   attrs |-> appendAttrs(appendAttrs("", r.attrs, h.group), SliceVal(h.attrs), h.group),
   source |-> IF h.opts.AddSource /\ r.pc # 0 THEN r.pc ELSE 0]

\* consoleHandler.Handle under h.mu: format, then h.out.Write, whose error
\* (werr) is returned; o is the content of the writer
consoleHandle(h, r, o, werr) ==
  IF werr THEN [err |-> WriteErr, out |-> o]
  ELSE [err |-> Nil, out |-> Append(o, FormatLine(h, r))]

\* capacity of the array append allocates when needed elements do not fit
\* in oldcap
GrowCap(oldcap, needed) == IF needed > 2 * oldcap THEN needed ELSE 2 * oldcap

ZeroAttrs(n) == [i \in 1..n |-> EmptyAttr]

\* make([]slog.Attr, 0, c): the arrays with the new one, and the slice
GoMake(arrs, c) ==
  IF c = 0 THEN [arrs |-> arrs, sl |-> NilSlice]
  ELSE [arrs |-> Append(arrs, ZeroAttrs(c)),
        sl |-> [arr |-> Len(arrs) + 1, len |-> 0, cap |-> c]]

\* append(sl, xs...): in place when xs fits in the capacity of sl, into a
\* new array otherwise
GoAppend(arrs, sl, xs) ==
  IF xs = <<>> THEN [arrs |-> arrs, sl |-> sl]
  ELSE IF sl.len + Len(xs) <= sl.cap
  THEN [arrs |-> [arrs EXCEPT ![sl.arr] =
                    [i \in 1..sl.cap |->
                       IF i > sl.len /\ i <= sl.len + Len(xs)
                       THEN xs[i - sl.len] ELSE arrs[sl.arr][i]]],
        sl |-> [sl EXCEPT !.len = sl.len + Len(xs)]]
  ELSE LET c == GrowCap(sl.cap, sl.len + Len(xs))
       IN [arrs |-> Append(arrs, SliceValIn(arrs, sl) \o xs
                                   \o ZeroAttrs(c - sl.len - Len(xs))),
           sl |-> [arr |-> Len(arrs) + 1, len |-> sl.len + Len(xs), cap |-> c]]

\* consoleHandler.WithAttrs, the arguments of the outer append:
\* make(.., 0, len(h.attrs)+len(attrs)) and append(h.attrs, attrs...)
consoleWithAttrsInner(arrs, h, attrs) ==
  LET mk == GoMake(arrs, h.attrs.len + Len(attrs))
      inner == GoAppend(mk.arrs, h.attrs, attrs)
  IN [arrs |-> inner.arrs, dst |-> mk.sl, inner |-> inner.sl]

\* a WithAttrs that also binds the attributes on its receiver
consoleWithAttrsCopyBindsReceiver(cs, arrs, c, dst, inner) ==
  LET cp == GoAppend(arrs, dst, SliceValIn(arrs, inner))
  IN [consoles |-> Append([cs EXCEPT ![c].attrs = cp.sl],
                          [opts |-> cs[c].opts, mu |-> Unlocked, out |-> cs[c].out,
                           attrs |-> cp.sl, group |-> cs[c].group]),
      arrays |-> cp.arrs]

\* consoleHandler.WithAttrs, the outer append and the new handler h2 of
\* receiver cs[c]; the heap of handlers with h2, and the arrays
consoleWithAttrsCopy(cs, arrs, c, dst, inner) ==
  LET cp == GoAppend(arrs, dst, SliceValIn(arrs, inner))
  IN [consoles |-> Append(cs, [opts |-> cs[c].opts, mu |-> Unlocked, out |-> cs[c].out,
                               attrs |-> cp.sl, group |-> cs[c].group]),
      arrays |-> cp.arrs]

\* consoleHandler.WithAttrs run from its call to its return
consoleWithAttrs(cs, arrs, c, attrs) ==
  LET st == consoleWithAttrsInner(arrs, cs[c], attrs)
  IN consoleWithAttrsCopy(cs, st.arrs, c, st.dst, st.inner)

\* consoleHandler.WithGroup on receiver cs[c]
consoleWithGroup(cs, arrs, c, name) ==
  LET newGroup == IF cs[c].group # "" THEN cs[c].group \o "." \o name ELSE name
      mk == GoMake(arrs, cs[c].attrs.len)
      cp == GoAppend(mk.arrs, mk.sl, SliceValIn(arrs, cs[c].attrs))
  IN [consoles |-> Append(cs, [opts |-> cs[c].opts, mu |-> Unlocked, out |-> cs[c].out,
                               attrs |-> cp.sl, group |-> newGroup]),
      arrays |-> cp.arrs]

\* a Lock that does not wait for the holder
LockFreeAlways(mu) == TRUE

\* sync.Mutex.Lock returns when the mutex is not held
LockFree(mu) == mu = Unlocked

\* --------------------------------------------------------- multiHandler
\* a loop that stops at the first member that failed
MultiNextIndexStopAtError(i, errs, n) == IF Len(errs) > 0 THEN n + 1 ELSE i + 1

\* the next loop index of multiHandler.Handle after member i, with the
\* errors collected so far: the range loop visits every member
MultiNextIndex(i, errs, n) == i + 1

\* a return statement that reports the error collected last
MultiResultLast(errs) == IF Len(errs) > 0 THEN errs[Len(errs)] ELSE Nil

\* what multiHandler.Handle returns once the loop is over
MultiResult(errs) == IF Len(errs) > 0 THEN errs[1] ELSE Nil

\* ---------------------------------------------------------------- state
Endpoints == {"", BadEndpoint}

\* the handler is built with either endpoint and starts with an empty
\* channel, or the burst has filled the channel of the default endpoint
Starts == {[ep |-> e, b |-> 0] : e \in Endpoints} \cup {[ep |-> "", b |-> Backlog]}

NewRecord(msg, level, attrs) ==
  [msg |-> msg, time |-> msg, level |-> level, pc |-> 0, attrs |-> attrs]

NoRecord == NewRecord(0, LevelInfo, <<>>)
NoFrame == [kind |-> "none", h |-> 0, r |-> NoRecord, i |-> 0, errs |-> <<>>,
            inv |-> <<>>, ret |-> Nil]

NoProbe == [fn |-> "none", h |-> 0, level |-> 0, res |-> FALSE]

ConsoleRef(i) == [kind |-> "console", ix |-> i]
RemoteRef(i) == [kind |-> "remote", ix |-> i]

\* the channel after producer p1 called Handle b times on the new handler,
\* before the worker first ran
BurstQueue(b) == [lo |-> 1, hi |-> b, tail |-> <<>>]

\* the package variables the handlers do not depend on: the default
\* logger is the dispatcher, no log file could be opened, no channel was
\* closed and no buffer was made yet
MultiRef(i) == [kind |-> "multi", ix |-> i]
NilFile == "nil"
InitPackage ==
  /\ defaultLogger = MultiRef(1)
  /\ logFile = NilFile
  /\ closed = {}
  /\ bufs = <<>>
  /\ pool = {}

Init ==
  \E st \in Starts :
    LET nv == NewVictoriaLogsHandler(st.ep, <<>>, <<>>)
        b == st.b
    IN /\ sinks = <<nv.h>>
       /\ chans = [nv.chans EXCEPT ![nv.h.logChan] = BurstQueue(b)]
       /\ workers = nv.workers
       /\ requests = <<>>
       /\ consoles = <<newConsoleHandler(1, NilOpts)>>
       /\ out = << <<>> >>
       /\ multis = <<[handlers |-> <<ConsoleRef(1), RemoteRef(1)>>]>>
       /\ pc = [p \in Producers |-> "idle"]
       /\ frame = [p \in Producers |-> NoFrame]
       /\ calls = 0
       /\ vlCalls = b
       /\ accepted = b
       /\ dropped = {}
       /\ enq = <<>>
       /\ arrays = <<>>
       /\ probe = NoProbe
       /\ InitPackage

\* --------------------------------------------------------------- actions
\* one run of VictoriaLogsHandler.Handle on sinks[s] by producer p
VLApply(s, r, p) ==
  LET h == sinks[s]
      q == chans[h.logChan]
      res == VLHandle(h, r, q, accepted + 1, p)
  IN [err |-> res.err,
      wait |-> res.wait,
      chans |-> [chans EXCEPT ![h.logChan] = res.q],
      took |-> ChanLen(res.q) > 0 /\ ChanAt(res.q, ChanLen(res.q)).seq = accepted + 1,
      enq |-> IF ChanLen(res.q) > 0 /\ ChanAt(res.q, ChanLen(res.q)).seq = accepted + 1
              THEN Append(enq, ChanAt(res.q, ChanLen(res.q))) ELSE enq]

\* a goroutine of the application calls VictoriaLogsHandler.Handle on one
\* of the remote handlers, with a record of one of the shapes; the call
\* runs to its return
VLCallWith(p, shapes) ==
  /\ UNCHANGED <<defaultLogger, logFile, closed, bufs, pool>>
  /\ UNCHANGED <<arrays, probe>>
  /\ pc[p] = "idle"
  /\ calls < MaxCalls
  /\ \E shape \in shapes, s \in DOMAIN sinks :
       LET r == NewRecord(calls + 1, shape.level, shape.attrs)
           a == VLApply(s, r, p)
       IN /\ ~a.wait
          /\ chans' = a.chans
          /\ accepted' = IF a.took THEN accepted + 1 ELSE accepted
          /\ dropped' = IF a.err = Nil /\ ~a.took THEN dropped \cup {r.msg} ELSE dropped
          /\ enq' = a.enq
          /\ frame' = [frame EXCEPT ![p] =
               [NoFrame EXCEPT !.kind = "remote", !.h = s, !.r = r, !.ret = a.err]]
  /\ calls' = calls + 1
  /\ vlCalls' = vlCalls + 1
  /\ pc' = [pc EXCEPT ![p] = "ret"]
  /\ UNCHANGED <<sinks, workers, requests, consoles, out, multis>>

VLCall(p) == VLCallWith(p, RemoteShapes)

HEnabled(hr, level) ==
  IF hr.kind = "console" THEN consoleEnabled(consoles[hr.ix], level)
  ELSE VLEnabled(sinks[hr.ix], level)

\* an Enabled that asks every member to be enabled
RECURSIVE multiEnabledAll(_, _)
multiEnabledAll(hs, level) ==
  IF hs = <<>> THEN TRUE
  ELSE IF ~HEnabled(Head(hs), level) THEN FALSE
  ELSE multiEnabledAll(Tail(hs), level)

\* multiHandler.Enabled: the range loop returns true at the first enabled
\* member, and false after the last
RECURSIVE multiEnabled(_, _)
multiEnabled(hs, level) ==
  IF hs = <<>> THEN FALSE
  ELSE IF HEnabled(Head(hs), level) THEN TRUE
  ELSE multiEnabled(Tail(hs), level)

\* the frame of multiHandler.Handle after the loop body ran for member f.i
\* (invoked: Handle was called on it and returned err); after the last
\* member the call is at its return statement
MHAdvance(f, invoked, err, n) ==
  LET errs2 == IF invoked /\ err # Nil THEN Append(f.errs, err) ELSE f.errs
      inv2 == IF invoked THEN [f.inv EXCEPT ![f.i] = @ + 1] ELSE f.inv
  IN [f EXCEPT !.errs = errs2, !.inv = inv2,
               !.i = MultiNextIndex(f.i, errs2, n),
               !.ret = MultiResult(errs2)]

\* one iteration of the loop of multiHandler.Handle by producer p, whose
\* frame is f
MHBody(p, f) ==
  LET hs == multis[f.h].handlers
      hr == hs[f.i]
  IN /\ \/ /\ ~HEnabled(hr, f.r.level)
           /\ frame' = [frame EXCEPT ![p] = MHAdvance(f, FALSE, Nil, Len(hs))]
           /\ UNCHANGED <<chans, out, vlCalls, accepted, dropped, enq>>
        \/ /\ HEnabled(hr, f.r.level)
           /\ hr.kind = "console"
           /\ \E werr \in BOOLEAN :
                LET h == consoles[hr.ix]
                    res == consoleHandle(h, f.r, out[h.out], werr)
                IN /\ out' = [out EXCEPT ![h.out] = res.out]
                   /\ frame' = [frame EXCEPT ![p] = MHAdvance(f, TRUE, res.err, Len(hs))]
           /\ UNCHANGED <<chans, vlCalls, accepted, dropped, enq>>
        \/ /\ HEnabled(hr, f.r.level)
           /\ hr.kind = "remote"
           /\ LET a == VLApply(hr.ix, f.r, p)
              IN /\ ~a.wait
                 /\ chans' = a.chans
                 /\ accepted' = IF a.took THEN accepted + 1 ELSE accepted
                 /\ dropped' = IF a.err = Nil /\ ~a.took
                               THEN dropped \cup {f.r.msg} ELSE dropped
                 /\ enq' = a.enq
                 /\ frame' = [frame EXCEPT ![p] = MHAdvance(f, TRUE, a.err, Len(hs))]
           /\ vlCalls' = vlCalls + 1
           /\ UNCHANGED out
     /\ pc' = [pc EXCEPT ![p] = IF frame'[p].i > Len(hs) THEN "ret" ELSE "mh_loop"]

\* a goroutine of the application calls multiHandler.Handle on the
\* dispatcher: the call runs up to the end of its first iteration
MHCall(p) ==
  /\ UNCHANGED <<defaultLogger, logFile, closed, bufs, pool>>
  /\ UNCHANGED <<arrays, probe>>
  /\ pc[p] = "idle"
  /\ calls < MaxCalls
  /\ \E shape \in RecordShapes :
       MHBody(p, [NoFrame EXCEPT !.kind = "multi", !.h = 1,
                                 !.r = NewRecord(calls + 1, shape.level, shape.attrs),
                                 !.i = 1,
                                 !.inv = [m \in 1..Len(multis[1].handlers) |-> 0]])
  /\ calls' = calls + 1
  /\ UNCHANGED <<sinks, workers, requests, consoles, multis>>

\* a later iteration of the loop of multiHandler.Handle
MHStep(p) ==
  /\ UNCHANGED <<defaultLogger, logFile, closed, bufs, pool>>
  /\ UNCHANGED <<arrays, probe>>
  /\ pc[p] = "mh_loop"
  /\ MHBody(p, frame[p])
  /\ UNCHANGED <<sinks, workers, requests, consoles, multis, calls>>

\* the caller takes the value Handle returned
Return(p) ==
  /\ UNCHANGED <<defaultLogger, logFile, closed, bufs, pool>>
  /\ UNCHANGED <<arrays, probe>>
  /\ pc[p] = "ret"
  /\ pc' = [pc EXCEPT ![p] = "idle"]
  /\ frame' = [frame EXCEPT ![p] = NoFrame]
  /\ UNCHANGED <<sinks, chans, workers, requests, consoles, out, multis, calls,
                 vlCalls, accepted, dropped, enq>>

\* VictoriaLogsHandler.WithAttrs on sinks[s]
WithAttrs(s) ==
  /\ UNCHANGED <<defaultLogger, logFile, closed, bufs, pool>>
  /\ UNCHANGED <<arrays, probe>>
  /\ Len(sinks) < MaxSinks
  /\ \E attrs \in BoundAttrs :
       LET res == VLWithAttrs(sinks[s], attrs, chans, workers)
       IN /\ sinks' = Append(sinks, res.h)
          /\ chans' = res.chans
          /\ workers' = res.workers
  /\ UNCHANGED <<requests, consoles, out, multis, pc, frame, calls, vlCalls,
                 accepted, dropped, enq>>

\* VictoriaLogsHandler.WithGroup on sinks[s]
WithGroup(s) ==
  /\ UNCHANGED <<defaultLogger, logFile, closed, bufs, pool>>
  /\ UNCHANGED <<arrays, probe>>
  /\ Len(sinks) < MaxSinks
  /\ \E name \in GroupNames :
       LET res == VLWithGroup(sinks[s], name, chans, workers)
       IN /\ sinks' = Append(sinks, res.h)
          /\ chans' = res.chans
          /\ workers' = res.workers
  /\ UNCHANGED <<requests, consoles, out, multis, pc, frame, calls, vlCalls,
                 accepted, dropped, enq>>

\* the worker receives a payload, builds the request (an error: continue)
\* and hands it to client.Do
WorkerSend(w) ==
  /\ UNCHANGED <<defaultLogger, logFile, closed, bufs, pool>>
  /\ UNCHANGED <<arrays, probe>>
  /\ workers[w].pc = "recv"
  /\ workers[w].taken < MaxSends
  /\ ChanLen(chans[workers[w].chan]) > 0
  /\ LET rcv == ChanRecv(chans[workers[w].chan])
     IN /\ chans' = [chans EXCEPT ![workers[w].chan] = rcv.q]
        /\ IF ~URLValid(workers[w].endpoint)
           THEN /\ workers' = [workers EXCEPT ![w].pc = WorkerNext("newreq_err"),
                                              ![w].last = "newreq_err",
                                              ![w].taken = @ + 1]
                /\ UNCHANGED requests
           ELSE /\ requests' = Append(requests,
                     [method |-> "POST", url |-> workers[w].endpoint,
                      contentType |-> "application/json", body |-> rcv.data.body,
                      seq |-> rcv.data.seq, by |-> rcv.data.by,
                      chan |-> workers[w].chan])
                /\ workers' = [workers EXCEPT ![w].pc = "do",
                                              ![w].taken = @ + 1]
  /\ UNCHANGED <<sinks, consoles, out, multis, pc, frame, calls, vlCalls,
                 accepted, dropped, enq>>

Outcomes == {"2xx", "non2xx", "do_err"}

\* client.Do returns: a response (closed by the worker) or an error
WorkerDone(w) ==
  /\ UNCHANGED <<defaultLogger, logFile, closed, bufs, pool>>
  /\ UNCHANGED <<arrays, probe>>
  /\ workers[w].pc = "do"
  /\ \E o \in Outcomes :
       workers' = [workers EXCEPT ![w].pc = WorkerNext(o), ![w].last = o]
  /\ UNCHANGED <<sinks, chans, requests, consoles, out, multis, pc, frame, calls,
                 vlCalls, accepted, dropped, enq>>

\* the remote sink and its worker, called directly by the producers
NextRemote ==
  \/ \E p \in Producers : VLCall(p)
  \/ \E p \in Producers : Return(p)
  \/ \E s \in DOMAIN sinks : WithAttrs(s)
  \/ \E s \in DOMAIN sinks : WithGroup(s)
  \/ \E w \in DOMAIN workers : WorkerSend(w)
  \/ \E w \in DOMAIN workers : WorkerDone(w)

SpecRemote == Init /\ [][NextRemote]_vars

\* the dispatcher over the console sink and the remote sink
NextMulti ==
  \/ \E p \in Producers : MHCall(p)
  \/ \E p \in Producers : MHStep(p)
  \/ \E p \in Producers : Return(p)
  \/ \E w \in DOMAIN workers : WorkerSend(w)
  \/ \E w \in DOMAIN workers : WorkerDone(w)

SpecMulti == Init /\ [][NextMulti]_vars

\* ------------------------------------------- derivation and console Handle
\* the handlers, arrays, channels and goroutines the derivations work on
Heap == [consoles |-> consoles, arrays |-> arrays, sinks |-> sinks,
         chans |-> chans, workers |-> workers]

\* handler.WithAttrs(arg) or handler.WithGroup(arg) on member hr: the heap
\* with the new handler, and the reference to it
DeriveMember(st, hr, op, arg) ==
  IF hr.kind = "console"
  THEN LET r == IF op = "attrs" THEN consoleWithAttrs(st.consoles, st.arrays, hr.ix, arg)
                ELSE consoleWithGroup(st.consoles, st.arrays, hr.ix, arg)
       IN [st |-> [st EXCEPT !.consoles = r.consoles, !.arrays = r.arrays],
           ref |-> ConsoleRef(Len(r.consoles))]
  ELSE LET r == IF op = "attrs" THEN VLWithAttrs(st.sinks[hr.ix], arg, st.chans, st.workers)
                ELSE VLWithGroup(st.sinks[hr.ix], arg, st.chans, st.workers)
       IN [st |-> [st EXCEPT !.sinks = Append(st.sinks, r.h), !.chans = r.chans,
                             !.workers = r.workers],
           ref |-> RemoteRef(Len(st.sinks) + 1)]

\* the range loop of multiHandler.WithAttrs / WithGroup from member i on,
\* with the handlers made so far
RECURSIVE MultiDerive(_, _, _, _, _, _)
MultiDerive(st, hs, i, acc, op, arg) ==
  IF i > Len(hs) THEN [st |-> st, handlers |-> acc]
  ELSE LET d == DeriveMember(st, hs[i], op, arg)
       IN MultiDerive(d.st, hs, i + 1, Append(acc, d.ref), op, arg)

\* a WithAttrs that wraps the receiver's own members
multiWithAttrsKeepMembers(st, hs, attrs) == [st |-> st, handlers |-> hs]

\* multiHandler.WithAttrs on a receiver with members hs
multiWithAttrs(st, hs, attrs) == MultiDerive(st, hs, 1, <<>>, "attrs", attrs)

\* multiHandler.WithGroup on a receiver with members hs
multiWithGroup(st, hs, name) == MultiDerive(st, hs, 1, <<>>, "group", name)

\* attribute lists bound on console handlers and dispatchers
TreeAttrs == {<<StrAttr("svc", "api")>>, <<StrAttr("id", "7")>>}

\* the record a console handler is given directly: one with an attribute
TreeShapes == {[level |-> LevelInfo, attrs |-> <<StrAttr("k", "v")>>]}

Deriving == Cardinality({p \in Producers : pc[p] = "wa_copy"})

\* a goroutine calls consoleHandler.WithAttrs on consoles[c]: the arguments
\* of the outer append are evaluated
CWithAttrsBegin(p) ==
  /\ UNCHANGED <<defaultLogger, logFile, closed, bufs, pool>>
  /\ pc[p] = "idle"
  /\ Len(consoles) + Deriving < MaxConsoles
  /\ \E c \in DOMAIN consoles, attrs \in TreeAttrs :
       LET st == consoleWithAttrsInner(arrays, consoles[c], attrs)
       IN /\ arrays' = st.arrs
          /\ frame' = [frame EXCEPT ![p] =
               [kind |-> "wattrs", h |-> c, r |-> NoRecord, i |-> 0, errs |-> <<>>,
                inv |-> <<>>, ret |-> Nil, dst |-> st.dst, inner |-> st.inner,
                attrs |-> attrs]]
  /\ pc' = [pc EXCEPT ![p] = "wa_copy"]
  /\ UNCHANGED <<sinks, chans, workers, requests, consoles, out, multis, calls,
                 vlCalls, accepted, dropped, enq, probe>>

\* the outer append copies, and WithAttrs returns the new handler
CWithAttrsEnd(p) ==
  /\ UNCHANGED <<defaultLogger, logFile, closed, bufs, pool>>
  /\ pc[p] = "wa_copy"
  /\ LET res == consoleWithAttrsCopy(consoles, arrays, frame[p].h, frame[p].dst,
                                     frame[p].inner)
     IN /\ consoles' = res.consoles
        /\ arrays' = res.arrays
  /\ pc' = [pc EXCEPT ![p] = "idle"]
  /\ frame' = [frame EXCEPT ![p] = NoFrame]
  /\ UNCHANGED <<sinks, chans, workers, requests, out, multis, calls, vlCalls,
                 accepted, dropped, enq, probe>>

\* consoleHandler.WithGroup on consoles[c]
CWithGroup(c) ==
  /\ UNCHANGED <<defaultLogger, logFile, closed, bufs, pool>>
  /\ Len(consoles) + Deriving < MaxConsoles
  /\ \E name \in GroupNames :
       LET res == consoleWithGroup(consoles, arrays, c, name)
       IN /\ consoles' = res.consoles
          /\ arrays' = res.arrays
  /\ UNCHANGED <<sinks, chans, workers, requests, out, multis, pc, frame, calls,
                 vlCalls, accepted, dropped, enq, probe>>

\* the heap after a derivation of a dispatcher stays within the bounds
FitsBounds(st) ==
  /\ Len(st.consoles) + Deriving <= MaxConsoles
  /\ Len(st.sinks) <= MaxSinks

\* multiHandler.WithAttrs on multis[m]
MultiWithAttrs(m) ==
  /\ UNCHANGED <<defaultLogger, logFile, closed, bufs, pool>>
  /\ \E attrs \in TreeAttrs :
       LET res == multiWithAttrs(Heap, multis[m].handlers, attrs)
       IN /\ FitsBounds(res.st)
          /\ multis' = Append(multis, [handlers |-> res.handlers])
          /\ consoles' = res.st.consoles
          /\ arrays' = res.st.arrays
          /\ sinks' = res.st.sinks
          /\ chans' = res.st.chans
          /\ workers' = res.st.workers
  /\ UNCHANGED <<requests, out, pc, frame, calls, vlCalls, accepted, dropped, enq,
                 probe>>

\* multiHandler.WithGroup on multis[m]
MultiWithGroup(m) ==
  /\ UNCHANGED <<defaultLogger, logFile, closed, bufs, pool>>
  /\ \E name \in GroupNames :
       LET res == multiWithGroup(Heap, multis[m].handlers, name)
       IN /\ FitsBounds(res.st)
          /\ multis' = Append(multis, [handlers |-> res.handlers])
          /\ consoles' = res.st.consoles
          /\ arrays' = res.st.arrays
          /\ sinks' = res.st.sinks
          /\ chans' = res.st.chans
          /\ workers' = res.st.workers
  /\ UNCHANGED <<requests, out, pc, frame, calls, vlCalls, accepted, dropped, enq,
                 probe>>

\* a goroutine calls consoleHandler.Handle on consoles[c] and reaches
\* h.mu.Lock()
CCall(p) ==
  /\ UNCHANGED <<defaultLogger, logFile, closed, bufs, pool>>
  /\ pc[p] = "idle"
  /\ calls < MaxCalls
  /\ \E c \in DOMAIN consoles, shape \in TreeShapes :
       frame' = [frame EXCEPT ![p] =
            [NoFrame EXCEPT !.kind = "console", !.h = c,
                            !.r = NewRecord(calls + 1, shape.level, shape.attrs)]]
  /\ calls' = calls + 1
  /\ pc' = [pc EXCEPT ![p] = "c_lock"]
  /\ UNCHANGED <<sinks, chans, workers, requests, consoles, out, multis, vlCalls,
                 accepted, dropped, enq, arrays, probe>>

\* h.mu.Lock() returns to the caller
CLock(p) ==
  /\ UNCHANGED <<defaultLogger, logFile, closed, bufs, pool>>
  /\ pc[p] = "c_lock"
  /\ LockFree(consoles[frame[p].h].mu)
  /\ consoles' = [consoles EXCEPT ![frame[p].h].mu = p]
  /\ pc' = [pc EXCEPT ![p] = "c_in"]
  /\ UNCHANGED <<sinks, chans, workers, requests, out, multis, frame, calls, vlCalls,
                 accepted, dropped, enq, arrays, probe>>

\* the line is formatted and h.out.Write returns
CWrite(p) ==
  /\ UNCHANGED <<defaultLogger, logFile, closed, bufs, pool>>
  /\ pc[p] = "c_in"
  /\ \E werr \in BOOLEAN :
       LET h == consoles[frame[p].h]
           res == consoleHandle(h, frame[p].r, out[h.out], werr)
       IN /\ out' = [out EXCEPT ![h.out] = res.out]
          /\ frame' = [frame EXCEPT ![p].ret = res.err]
  /\ pc' = [pc EXCEPT ![p] = "c_out"]
  /\ UNCHANGED <<sinks, chans, workers, requests, consoles, multis, calls, vlCalls,
                 accepted, dropped, enq, arrays, probe>>

\* the deferred h.mu.Unlock() runs and Handle returns to its caller
CUnlock(p) ==
  /\ UNCHANGED <<defaultLogger, logFile, closed, bufs, pool>>
  /\ pc[p] = "c_out"
  /\ consoles' = [consoles EXCEPT ![frame[p].h].mu = Unlocked]
  /\ pc' = [pc EXCEPT ![p] = "idle"]
  /\ frame' = [frame EXCEPT ![p] = NoFrame]
  /\ UNCHANGED <<sinks, chans, workers, requests, out, multis, calls, vlCalls,
                 accepted, dropped, enq, arrays, probe>>

\* the handlers of the default dispatcher, the channel still empty
InitTree == Init /\ ChanLen(chans[1]) = 0 /\ sinks[1].endpoint = DefaultEndpoint

NextTree ==
  \/ \E p \in Producers : CWithAttrsBegin(p)
  \/ \E p \in Producers : CWithAttrsEnd(p)
  \/ \E c \in DOMAIN consoles : CWithGroup(c)
  \/ \E s \in DOMAIN sinks : WithAttrs(s)
  \/ \E s \in DOMAIN sinks : WithGroup(s)
  \/ \E m \in DOMAIN multis : MultiWithAttrs(m)
  \/ \E m \in DOMAIN multis : MultiWithGroup(m)

SpecTree == InitTree /\ [][NextTree]_vars

\* goroutines that derive console handlers and log through them
NextConsole ==
  \/ \E p \in Producers : CWithAttrsBegin(p)
  \/ \E p \in Producers : CWithAttrsEnd(p)
  \/ \E c \in DOMAIN consoles : CWithGroup(c)
  \/ \E p \in Producers : CCall(p)
  \/ \E p \in Producers : CLock(p)
  \/ \E p \in Producers : CWrite(p)
  \/ \E p \in Producers : CUnlock(p)

SpecConsole == InitTree /\ [][NextConsole]_vars

\* ------------------------------------------------- the remote document
MaxDerive == 2

\* the derivation calls that lead from a new handler to the one in use
DocOps == {[op |-> "attrs", arg |-> <<StrAttr("svc", "api")>>],
           [op |-> "group", arg |-> "req"],
           [op |-> "group", arg |-> "db"]}

DocChains == UNION {[1..n -> DocOps] : n \in 0..MaxDerive}

\* the handler that the calls ops, made in order, lead to from h
RECURSIVE DeriveChain(_, _)
DeriveChain(h, ops) ==
  IF ops = <<>> THEN h
  ELSE DeriveChain(IF Head(ops).op = "attrs"
                   THEN VLWithAttrs(h, Head(ops).arg, <<>>, <<>>).h
                   ELSE VLWithGroup(h, Head(ops).arg, <<>>, <<>>).h,
                   Tail(ops))

\* the records handled: every named level and one between two of them,
\* and at level Info the attribute lists: a plain attribute, a group, a
\* group in a group, an attribute named like a standard field, the empty
\* attribute, and two attributes with one key
DocShapes ==
  {[level |-> l, attrs |-> <<>>] : l \in NamedLevels \cup {LevelInfo + 2}}
    \cup {[level |-> LevelInfo, attrs |-> as] :
            as \in {<<StrAttr("k", "v")>>,
                    <<GroupAttr("g", <<StrAttr("k", "v")>>)>>,
                    <<GroupAttr("g", <<GroupAttr("h", <<StrAttr("k", "v")>>)>>)>>,
                    <<StrAttr("level", "x")>>,
                    <<EmptyAttr, StrAttr("k", "v")>>,
                    <<StrAttr("k", "v"), StrAttr("k", "w")>>}}

\* the application holds a handler derived from a new one by a chain of
\* WithAttrs and WithGroup calls, which probe remembers
InitDoc ==
  \E ops \in DocChains :
    LET nv == NewVictoriaLogsHandler("", <<>>, <<>>)
    IN /\ sinks = <<DeriveChain(nv.h, ops)>>
       /\ chans = nv.chans
       /\ workers = nv.workers
       /\ requests = <<>>
       /\ consoles = <<newConsoleHandler(1, NilOpts)>>
       /\ out = << <<>> >>
       /\ multis = <<[handlers |-> <<ConsoleRef(1), RemoteRef(1)>>]>>
       /\ pc = [p \in Producers |-> "idle"]
       /\ frame = [p \in Producers |-> NoFrame]
       /\ calls = 0
       /\ vlCalls = 0
       /\ accepted = 0
       /\ dropped = {}
       /\ enq = <<>>
       /\ arrays = <<>>
       /\ probe = [fn |-> "derived", h |-> 1, level |-> 0, res |-> FALSE, ops |-> ops]
       /\ InitPackage

\* VictoriaLogsHandler.Handle on the handler, with a record of DocShapes
DocCall(p) == VLCallWith(p, DocShapes)

NextDoc ==
  \/ DocCall("p1")
  \/ Return("p1")

SpecDoc == InitDoc /\ [][NextDoc]_vars

\* ------------------------------------------------ the Enabled functions
\* the levels a caller asks about: the named ones and their neighbours
ProbeLevels == NamedLevels \cup {LevelInfo - 1, LevelInfo + 1}

\* HandlerOptions of a console handler: no Level, or one of the named levels
ConsoleOpts ==
  {NilOpts} \cup {[hasLevel |-> TRUE, Level |-> m, AddSource |-> FALSE] : m \in NamedLevels}

\* member lists of a multiHandler over two console handlers and the remote one
MemberLists ==
  {<<>>, <<ConsoleRef(1)>>, <<RemoteRef(1)>>, <<ConsoleRef(1), RemoteRef(1)>>,
   <<ConsoleRef(1), ConsoleRef(2)>>}

\* the handlers as the application built them: two console handlers with
\* their options, the remote handler, and a multiHandler over some of them
InitEnabled ==
  \E o1 \in ConsoleOpts, o2 \in ConsoleOpts, hs \in MemberLists :
    LET nv == NewVictoriaLogsHandler("", <<>>, <<>>)
    IN /\ sinks = <<nv.h>>
       /\ chans = nv.chans
       /\ workers = nv.workers
       /\ requests = <<>>
       /\ consoles = <<newConsoleHandler(1, o1), newConsoleHandler(1, o2)>>
       /\ out = << <<>> >>
       /\ multis = <<[handlers |-> hs]>>
       /\ pc = [p \in Producers |-> "idle"]
       /\ frame = [p \in Producers |-> NoFrame]
       /\ calls = 0
       /\ vlCalls = 0
       /\ accepted = 0
       /\ dropped = {}
       /\ enq = <<>>
       /\ arrays = <<>>
       /\ probe = NoProbe
       /\ InitPackage

\* the application calls consoleHandler.Enabled on consoles[c]
ConsoleEnabledCall(c) ==
  /\ UNCHANGED <<defaultLogger, logFile, closed, bufs, pool>>
  /\ \E level \in ProbeLevels :
       probe' = [fn |-> "console", h |-> c, level |-> level,
                 res |-> consoleEnabled(consoles[c], level)]
  /\ UNCHANGED <<sinks, chans, workers, requests, consoles, out, multis, pc, frame,
                 calls, vlCalls, accepted, dropped, enq, arrays>>

\* the application calls multiHandler.Enabled on multis[m]
MultiEnabledCall(m) ==
  /\ UNCHANGED <<defaultLogger, logFile, closed, bufs, pool>>
  /\ \E level \in ProbeLevels :
       probe' = [fn |-> "multi", h |-> m, level |-> level,
                 res |-> multiEnabled(multis[m].handlers, level)]
  /\ UNCHANGED <<sinks, chans, workers, requests, consoles, out, multis, pc, frame,
                 calls, vlCalls, accepted, dropped, enq, arrays>>

NextEnabled ==
  \/ \E c \in DOMAIN consoles : ConsoleEnabledCall(c)
  \/ \E m \in DOMAIN multis : MultiEnabledCall(m)

SpecEnabled == InitEnabled /\ [][NextEnabled]_vars

\* -------------------------------------------------------- the front end
\* the functions that can be on the stack of a logging call; a program
\* counter is the position of its function in this list, and 0 is no
\* program counter
Functions == <<"main.main", "log.Trace", "log.Debug", "log.Info", "log.InfoContext",
               "log.Warn", "log.Error", "log.Emergency", "log.Log", "log.Print",
               "log.Printf", "log.Debugf", "log.Infof", "log.Errorf", "log.Emergencyf",
               "log.log", "runtime.Callers">>
pcOf(fn) == CHOOSE i \in DOMAIN Functions : Functions[i] = fn
AppFunction == "main.main"

\* runtime.Callers(skip, pcs[:]) with a pcs of length one, called on the
\* stack (outermost function first, runtime.Callers last): skip 0 is
\* runtime.Callers itself, skip 1 its caller
Callers(skip, stack) ==
  IF Len(stack) - skip >= 1 THEN pcOf(stack[Len(stack) - skip]) ELSE 0

\* the skip that log passes to runtime.Callers
CallerSkip == 3

\* the exported functions: the leveled ones and Log call log, the
\* printf-style ones check Enabled and call a leveled one (via)
Leveled(fn, level) == [fn |-> fn, level |-> level, via |-> "", args |-> TRUE]
Wrapper(fn, level, via) == [fn |-> fn, level |-> level, via |-> via, args |-> FALSE]
FrontEnds ==
  {Leveled("log.Debug", LevelDebug), Leveled("log.Info", LevelInfo),
   Leveled("log.InfoContext", LevelInfo), Leveled("log.Log", LevelWarn),
   Leveled("log.Log", LevelTrace),
   Wrapper("log.Printf", LevelInfo, "log.Info"),
   Wrapper("log.Infof", LevelInfo, "log.Info"),
   Wrapper("log.Debugf", LevelDebug, "log.Debug"),
   Wrapper("log.Errorf", LevelError, "log.Error"),
   Wrapper("log.Emergencyf", LevelEmergency, "log.Emergency")}

\* the stack when the entry point e, called by the application, has
\* reached runtime.Callers in log
StackOf(e) ==
  <<AppFunction, e.fn>> \o (IF e.via # "" THEN <<e.via>> ELSE <<>>)
    \o <<"log.log", "runtime.Callers">>

\* the arguments after the message of a leveled call
FrontArgs == {<<>>, <<BadAttr>>}

\* defaultLogger.Enabled
LoggerEnabled(level) ==
  IF defaultLogger.kind = "multi"
  THEN multiEnabled(multis[defaultLogger.ix].handlers, level)
  ELSE HEnabled(defaultLogger, level)

\* a log that hands the error of Handle on to the application
logReturnPropagates(err) ==
  [outcome |-> IF err # Nil THEN "panic" ELSE "returned", value |-> "none"]

\* what log gives back to the exported function after Handle returned err:
\* the error is assigned to the blank identifier and log returns no value
logReturn(err) == [outcome |-> "returned", value |-> "none"]

\* the options init gives the console handler
InitOpts == [hasLevel |-> TRUE, Level |-> LevelDebug, AddSource |-> TRUE]

\* an endpoint the application put into VICTORIA_LOGS_ENDPOINT
CustomEndpoint == "http://vl:9428/insert/elasticsearch/_bulk"

\* init, given the value env of VICTORIA_LOGS_ENDPOINT ("" when it is not
\* set) and no log file: the console handler, the Victoria Logs handler,
\* the dispatcher over them, the default logger
init(env) ==
  LET nv == NewVictoriaLogsHandler(env, <<>>, <<>>)
  IN [consoles |-> <<newConsoleHandler(1, InitOpts)>>,
      sinks |-> <<nv.h>>,
      chans |-> nv.chans,
      workers |-> nv.workers,
      multis |-> <<[handlers |-> <<ConsoleRef(1), RemoteRef(1)>>]>>,
      defaultLogger |-> MultiRef(1)]

FrontStarts == {[env |-> e, b |-> 0] : e \in {"", CustomEndpoint, BadEndpoint}}
                 \cup {[env |-> "", b |-> Backlog]}

\* the state after init, with a handler of the application (minimum level
\* Info, no source) that SetDefault can install, and possibly after a
\* burst that filled the channel; probe remembers the environment
InitFront ==
  \E st \in FrontStarts :
    LET pkg == init(st.env)
    IN /\ sinks = pkg.sinks
       /\ chans = [pkg.chans EXCEPT ![1] = BurstQueue(st.b)]
       /\ workers = pkg.workers
       /\ requests = <<>>
       /\ consoles = pkg.consoles \o <<newConsoleHandler(1, NilOpts)>>
       /\ out = << <<>> >>
       /\ multis = pkg.multis
       /\ pc = [p \in Producers |-> "idle"]
       /\ frame = [p \in Producers |-> NoFrame]
       /\ calls = 0
       /\ vlCalls = st.b
       /\ accepted = st.b
       /\ dropped = {}
       /\ enq = <<>>
       /\ arrays = <<>>
       /\ probe = [fn |-> "init", env |-> st.env]
       /\ defaultLogger = pkg.defaultLogger
       /\ logFile = NilFile
       /\ closed = {}
       /\ bufs = <<>>
       /\ pool = {}

\* the application calls SetDefault with a logger over its own handler, or
\* over the dispatcher again, while no logging call is running
SetDefault(l) ==
  /\ \A p \in Producers : pc[p] = "idle"
  /\ defaultLogger # l
  /\ defaultLogger' = l
  /\ UNCHANGED <<sinks, chans, workers, requests, consoles, out, multis, pc, frame,
                 calls, vlCalls, accepted, dropped, enq, arrays, probe, logFile,
                 closed, bufs, pool>>

\* the application function calls an exported logging function: a wrapper
\* returns when the level is not enabled and else calls the leveled
\* function; log returns when the level is not enabled, else takes the
\* program counter, builds the record and calls Handle on the handler of
\* the default logger, which runs up to the end of its first iteration
FrontCall(p) ==
  /\ pc[p] = "idle"
  /\ calls < MaxCalls
  /\ \E e \in FrontEnds, args \in FrontArgs :
       LET r == [NewRecord(calls + 1, e.level, IF e.args THEN args ELSE <<>>)
                   EXCEPT !.pc = Callers(CallerSkip, StackOf(e))]
           f == [kind |-> defaultLogger.kind, h |-> defaultLogger.ix, r |-> r,
                 i |-> 1, errs |-> <<>>, inv |-> <<>>, ret |-> Nil, entry |-> e]
       IN /\ (~e.args) => args = <<>>
          /\ IF ~LoggerEnabled(e.level)
             THEN /\ frame' = [frame EXCEPT ![p] = [f EXCEPT !.kind = "skipped"]]
                  /\ pc' = [pc EXCEPT ![p] = "ret"]
                  /\ UNCHANGED <<chans, out, vlCalls, accepted, dropped, enq>>
             ELSE IF defaultLogger.kind = "multi"
             THEN MHBody(p, [f EXCEPT !.inv =
                                [m \in 1..Len(multis[f.h].handlers) |-> 0]])
             ELSE \E werr \in BOOLEAN :
                    LET h == consoles[defaultLogger.ix]
                        res == consoleHandle(h, r, out[h.out], werr)
                    IN /\ out' = [out EXCEPT ![h.out] = res.out]
                       /\ frame' = [frame EXCEPT ![p] = [f EXCEPT !.ret = res.err]]
                       /\ pc' = [pc EXCEPT ![p] = "ret"]
                       /\ UNCHANGED <<chans, vlCalls, accepted, dropped, enq>>
  /\ calls' = calls + 1
  /\ UNCHANGED <<sinks, workers, requests, consoles, multis, arrays, probe,
                 defaultLogger, logFile, closed, bufs, pool>>

\* Handle has returned: log drops its error and returns, and so do the
\* exported functions; probe remembers how the call came back to the
\* application
FrontReturn(p) ==
  /\ pc[p] = "ret"
  /\ probe' = [fn |-> "front", env |-> probe.env, entry |-> frame[p].entry.fn,
               handled |-> frame[p].kind # "skipped", errs |-> frame[p].errs,
               ret |-> frame[p].ret, msg |-> frame[p].r.msg,
               back |-> logReturn(frame[p].ret)]
  /\ pc' = [pc EXCEPT ![p] = "idle"]
  /\ frame' = [frame EXCEPT ![p] = NoFrame]
  /\ UNCHANGED <<sinks, chans, workers, requests, consoles, out, multis, calls,
                 vlCalls, accepted, dropped, enq, arrays, defaultLogger, logFile,
                 closed, bufs, pool>>

\* one goroutine of the application logs through the front end
NextFront ==
  \/ FrontCall("p1")
  \/ MHStep("p1")
  \/ FrontReturn("p1")
  \/ \E l \in {ConsoleRef(2), MultiRef(1)} : SetDefault(l)

SpecFront == InitFront /\ [][NextFront]_vars

\* the dispatcher that init built, called directly, and the worker
SpecInit == InitFront /\ [][NextMulti]_vars

\* ------------------------------------------------ the worker and the network
\* httpClient.Timeout: init does not set the field, and zero is no limit
httpClientTimeout == 0

\* the Timeout of the net.Dialer of the transport, in seconds
DialTimeout == 30

\* the endpoint answers every request, or cannot be connected to, or
\* accepts the connection and never sends a response
NetModes == {"answers", "no_connect", "no_response"}

\* the ways client.Do can return against an endpoint in mode: with the
\* response, or with the error of a limit that ran out
DoOutcomes(mode) ==
  CASE mode = "answers" -> {"2xx", "non2xx"}
    [] mode = "no_connect" -> IF DialTimeout > 0 THEN {"do_err"} ELSE {}
    [] mode = "no_response" -> IF httpClientTimeout > 0 THEN {"do_err"} ELSE {}

\* the new handler with an empty channel; probe holds the mode of the
\* endpoint
InitNet ==
  \E mode \in NetModes, ep \in Endpoints :
    LET nv == NewVictoriaLogsHandler(ep, <<>>, <<>>)
    IN /\ sinks = <<nv.h>>
       /\ chans = nv.chans
       /\ workers = nv.workers
       /\ requests = <<>>
       /\ consoles = <<newConsoleHandler(1, NilOpts)>>
       /\ out = << <<>> >>
       /\ multis = <<[handlers |-> <<ConsoleRef(1), RemoteRef(1)>>]>>
       /\ pc = [p \in Producers |-> "idle"]
       /\ frame = [p \in Producers |-> NoFrame]
       /\ calls = 0
       /\ vlCalls = 0
       /\ accepted = 0
       /\ dropped = {}
       /\ enq = <<>>
       /\ arrays = <<>>
       /\ probe = [fn |-> "net", mode |-> mode]
       /\ InitPackage

\* client.Do returns to the worker
WorkerDoneNet(w) ==
  /\ workers[w].pc = "do"
  /\ \E o \in DoOutcomes(probe.mode) :
       workers' = [workers EXCEPT ![w].pc = WorkerNext(o), ![w].last = o]
  /\ UNCHANGED <<sinks, chans, requests, consoles, out, multis, pc, frame, calls,
                 vlCalls, accepted, dropped, enq, arrays, probe, defaultLogger,
                 logFile, closed, bufs, pool>>

NextNet ==
  \/ \E p \in Producers : VLCall(p)
  \/ \E p \in Producers : Return(p)
  \/ \E w \in DOMAIN workers : WorkerSend(w)
  \/ \E w \in DOMAIN workers : WorkerDoneNet(w)

\* the worker goroutine is scheduled again and again, and client.Do
\* returns when it can
SpecNet ==
  /\ InitNet
  /\ [][NextNet]_vars
  /\ WF_vars(WorkerSend(1))
  /\ WF_vars(WorkerDoneNet(1))

\* ------------------------------------------------------------- Close
MaxCloses == 2

OpenFile == "open"
ClosedFile == "closed"
ErrClosed == "file already closed"
CloseErr == "close error"

\* logFile.Close() on a file in state lf: the first call closes the file
\* and returns nil or the error of the operating system (oserr), a later
\* call returns the already-closed error
fileClose(lf, oserr) ==
  IF lf = OpenFile
  THEN [logFile |-> ClosedFile, err |-> IF oserr THEN CloseErr ELSE Nil]
  ELSE [logFile |-> ClosedFile, err |-> ErrClosed]

\* a Close that also closes the channels of the handlers
CloseAndQueues(lf, oserr, cl, cs) ==
  IF lf # NilFile
  THEN [logFile |-> fileClose(lf, oserr).logFile, called |-> TRUE,
        err |-> fileClose(lf, oserr).err, closed |-> DOMAIN cs]
  ELSE [logFile |-> lf, called |-> FALSE, err |-> Nil, closed |-> DOMAIN cs]

\* Close, called with logFile = lf, the closed channels cl and the channels
\* cs: the log file and the closed channels afterwards, whether
\* logFile.Close was called, and the error returned
Close(lf, oserr, cl, cs) ==
  IF lf # NilFile
  THEN [logFile |-> fileClose(lf, oserr).logFile, called |-> TRUE,
        err |-> fileClose(lf, oserr).err, closed |-> cl]
  ELSE [logFile |-> lf, called |-> FALSE, err |-> Nil, closed |-> cl]

\* the state after init, where the log file could be opened or not, and
\* possibly after a burst that filled the channel
InitClose ==
  \E st \in Starts, lf \in {NilFile, OpenFile} :
    LET nv == NewVictoriaLogsHandler(st.ep, <<>>, <<>>)
    IN /\ sinks = <<nv.h>>
       /\ chans = [nv.chans EXCEPT ![nv.h.logChan] = BurstQueue(st.b)]
       /\ workers = nv.workers
       /\ requests = <<>>
       /\ consoles = <<newConsoleHandler(1, NilOpts)>>
       /\ out = << <<>> >>
       /\ multis = <<[handlers |-> <<ConsoleRef(1), RemoteRef(1)>>]>>
       /\ pc = [p \in Producers |-> "idle"]
       /\ frame = [p \in Producers |-> NoFrame]
       /\ calls = 0
       /\ vlCalls = st.b
       /\ accepted = st.b
       /\ dropped = {}
       /\ enq = <<>>
       /\ arrays = <<>>
       /\ probe = [fn |-> "none", n |-> 0, at |-> 0, was |-> lf, called |-> FALSE,
                   err |-> Nil, oserr |-> FALSE]
       /\ defaultLogger = MultiRef(1)
       /\ logFile = lf
       /\ closed = {}
       /\ bufs = <<>>
       /\ pool = {}

\* the application calls Close; probe remembers the state of the log file
\* before the call, the number of logging calls made so far and what Close
\* returned
CloseCall ==
  /\ probe.n < MaxCloses
  /\ \E oserr \in BOOLEAN :
       LET res == Close(logFile, oserr, closed, chans)
       IN /\ logFile' = res.logFile
          /\ closed' = res.closed
          /\ probe' = [fn |-> "Close", n |-> probe.n + 1, at |-> calls, was |-> logFile,
                       called |-> res.called, err |-> res.err, oserr |-> oserr]
  /\ UNCHANGED <<sinks, chans, workers, requests, consoles, out, multis, pc, frame,
                 calls, vlCalls, accepted, dropped, enq, arrays, defaultLogger, bufs,
                 pool>>

\* VictoriaLogsHandler.Handle called by a goroutine of the application: a
\* send on a closed channel panics, and the goroutine does not return
HandleCall(p) ==
  IF closed # {}
  THEN /\ pc[p] = "idle"
       /\ calls < MaxCalls
       /\ pc' = [pc EXCEPT ![p] = "panic"]
       /\ calls' = calls + 1
       /\ UNCHANGED <<sinks, chans, workers, requests, consoles, out, multis, frame,
                      vlCalls, accepted, dropped, enq, arrays, probe, defaultLogger,
                      logFile, closed, bufs, pool>>
  ELSE VLCall(p)

NextClose ==
  \/ CloseCall
  \/ \E p \in Producers : HandleCall(p)
  \/ \E p \in Producers : Return(p)
  \/ \E w \in DOMAIN workers : WorkerSend(w)
  \/ \E w \in DOMAIN workers : WorkerDone(w)

SpecClose == InitClose /\ [][NextClose]_vars

\* ---------------------------------------------------- the buffer pool
\* bufs holds the content of every byte array: those of the bytes.Buffer
\* values made by bufferPool.New, and those made for the payloads; a
\* buffer and a []byte are the index of their array

\* bufferPool.Get: a buffer of the pool, or a new one
PoolGet(pl, bs) ==
  {[buf |-> b, pool |-> pl \ {b}, bufs |-> bs] : b \in pl}
    \cup {[buf |-> Len(bs) + 1, pool |-> pl, bufs |-> Append(bs, <<>>)]}

\* buf.Reset(), buf.Write(createLineBytes) and encoder.Encode(entry) on
\* buffer b: the encoder writes nothing when it fails
EncodeInto(bs, b, entry) ==
  IF Encodable(entry)
  THEN [bufs |-> [bs EXCEPT ![b] = <<createLineBytes, entry>>], err |-> Nil]
  ELSE [bufs |-> [bs EXCEPT ![b] = <<createLineBytes>>], err |-> EncodeErr]

\* a payload that is the slice buf.Bytes() of the buffer itself
copyOutAlias(bs, b) == [bufs |-> bs, data |-> b]

\* data := make([]byte, buf.Len()); copy(data, buf.Bytes()): a new array
\* with the content of buffer b
copyOut(bs, b) == [bufs |-> Append(bs, bs[b]), data |-> Len(bs) + 1]

\* Handle up to the encoder: the map is filled, a buffer is taken from the
\* pool, reset and written
PEncode(p) ==
  /\ pc[p] = "idle"
  /\ calls < MaxCalls
  /\ \E shape \in RemoteShapes, s \in DOMAIN sinks, g \in PoolGet(pool, bufs) :
       LET r == NewRecord(calls + 1, shape.level, shape.attrs)
           enc == EncodeInto(g.bufs, g.buf, BuildEntry(sinks[s], r))
       IN /\ bufs' = enc.bufs
          /\ pool' = g.pool
          /\ frame' = [frame EXCEPT ![p] =
               [kind |-> "remote", h |-> s, r |-> r, i |-> 0, errs |-> <<>>,
                inv |-> <<>>, ret |-> enc.err, buf |-> g.buf]]
          /\ pc' = [pc EXCEPT ![p] = IF enc.err = Nil THEN "p_send" ELSE "p_put"]
  /\ calls' = calls + 1
  /\ vlCalls' = vlCalls + 1
  /\ UNCHANGED <<sinks, chans, workers, requests, consoles, out, multis, accepted,
                 dropped, enq, arrays, probe, defaultLogger, logFile, closed>>

\* the bytes are copied out of the buffer and the select sends them or
\* drops them; enq remembers the serialization of the record
PSend(p) ==
  /\ pc[p] = "p_send"
  /\ LET f == frame[p]
         c == sinks[f.h].logChan
         cp == copyOut(bufs, f.buf)
         snd == TrySend(chans[c], [body |-> cp.data, seq |-> accepted + 1, by |-> p])
         took == ChanLen(snd.q) > ChanLen(chans[c])
     IN /\ ~snd.wait
        /\ bufs' = cp.bufs
        /\ chans' = [chans EXCEPT ![c] = snd.q]
        /\ accepted' = IF took THEN accepted + 1 ELSE accepted
        /\ dropped' = IF took THEN dropped ELSE dropped \cup {f.r.msg}
        /\ enq' = IF took
                  THEN Append(enq, Payload(BuildEntry(sinks[f.h], f.r), accepted + 1, p))
                  ELSE enq
  /\ pc' = [pc EXCEPT ![p] = "p_put"]
  /\ UNCHANGED <<sinks, workers, requests, consoles, out, multis, frame, calls,
                 vlCalls, arrays, probe, defaultLogger, logFile, closed, pool>>

\* Handle returns and the deferred bufferPool.Put(buf) runs
PPut(p) ==
  /\ pc[p] = "p_put"
  /\ pool' = pool \cup {frame[p].buf}
  /\ pc' = [pc EXCEPT ![p] = "ret"]
  /\ UNCHANGED <<sinks, chans, workers, requests, consoles, out, multis, frame, calls,
                 vlCalls, accepted, dropped, enq, arrays, probe, defaultLogger,
                 logFile, closed, bufs>>

\* the worker receives a payload and hands the request to client.Do, which
\* reads the body from the array of the payload
PWorkerSend(w) ==
  /\ workers[w].pc = "recv"
  /\ workers[w].taken < MaxSends
  /\ ChanLen(chans[workers[w].chan]) > 0
  /\ LET rcv == ChanRecv(chans[workers[w].chan])
     IN /\ chans' = [chans EXCEPT ![workers[w].chan] = rcv.q]
        /\ requests' = Append(requests,
             [method |-> "POST", url |-> workers[w].endpoint,
              contentType |-> "application/json", body |-> bufs[rcv.data.body],
              seq |-> rcv.data.seq, by |-> rcv.data.by, chan |-> workers[w].chan])
        /\ workers' = [workers EXCEPT ![w].pc = "do", ![w].taken = @ + 1]
  /\ UNCHANGED <<sinks, consoles, out, multis, pc, frame, calls, vlCalls, accepted,
                 dropped, enq, arrays, probe, defaultLogger, logFile, closed, bufs,
                 pool>>

NextPool ==
  \/ \E p \in Producers : PEncode(p)
  \/ \E p \in Producers : PSend(p)
  \/ \E p \in Producers : PPut(p)
  \/ \E p \in Producers : Return(p)
  \/ \E w \in DOMAIN workers : PWorkerSend(w)
  \/ \E w \in DOMAIN workers : WorkerDone(w)

SpecPool == InitTree /\ [][NextPool]_vars

\* --------------------------------------- WithAttrs and WithGroup in both orders
\* the console handler that the calls ops, made in order, lead to from
\* cs[c], with the handlers and arrays made on the way
RECURSIVE ConsoleChain(_, _, _, _)
ConsoleChain(cs, arrs, c, ops) ==
  IF ops = <<>> THEN [consoles |-> cs, arrays |-> arrs, h |-> c]
  ELSE LET st == IF Head(ops).op = "attrs"
                 THEN consoleWithAttrs(cs, arrs, c, Head(ops).arg)
                 ELSE consoleWithGroup(cs, arrs, c, Head(ops).arg)
       IN ConsoleChain(st.consoles, st.arrays, Len(st.consoles), Tail(ops))

\* the arguments of the two calls whose order is exchanged
CommuteAttrs == {<<StrAttr("id", "7")>>, <<StrAttr("svc", "api"), StrAttr("k", "b")>>}
CommuteGroups == {"req", "db"}

\* the records handed to the derived handlers: no attribute, a plain one,
\* a group
CommuteShapes ==
  {[level |-> LevelInfo, attrs |-> as] :
     as \in {<<>>, <<StrAttr("k", "v")>>, <<GroupAttr("g", <<StrAttr("k", "v")>>)>>}}

\* the application holds a console handler and a Victoria Logs handler,
\* each derived from a new one by the same chain of calls
InitCommute ==
  \E ops \in DocChains :
    LET nv == NewVictoriaLogsHandler("", <<>>, <<>>)
        cc == ConsoleChain(<<newConsoleHandler(1, NilOpts)>>, <<>>, 1, ops)
    IN /\ sinks = <<DeriveChain(nv.h, ops)>>
       /\ chans = nv.chans
       /\ workers = nv.workers
       /\ requests = <<>>
       /\ consoles = cc.consoles
       /\ out = << <<>> >>
       /\ multis = <<[handlers |-> <<ConsoleRef(1), RemoteRef(1)>>]>>
       /\ pc = [p \in Producers |-> "idle"]
       /\ frame = [p \in Producers |-> NoFrame]
       /\ calls = 0
       /\ vlCalls = 0
       /\ accepted = 0
       /\ dropped = {}
       /\ enq = <<>>
       /\ arrays = cc.arrays
       /\ probe = [fn |-> "base", ops |-> ops, c |-> cc.h]
       /\ InitPackage

\* the application derives from each of its two handlers h the handlers
\* h.WithAttrs(a).WithGroup(g) and h.WithGroup(g).WithAttrs(a); probe
\* remembers the four
DeriveBothOrders ==
  /\ probe.fn = "base"
  /\ \E a \in CommuteAttrs, g \in CommuteGroups :
       LET ra == VLWithAttrs(sinks[1], a, chans, workers)
           rag == VLWithGroup(ra.h, g, ra.chans, ra.workers)
           rg == VLWithGroup(sinks[1], g, rag.chans, rag.workers)
           rga == VLWithAttrs(rg.h, a, rg.chans, rg.workers)
           ca == consoleWithAttrs(consoles, arrays, probe.c, a)
           cag == consoleWithGroup(ca.consoles, ca.arrays, Len(ca.consoles), g)
           cg == consoleWithGroup(cag.consoles, cag.arrays, probe.c, g)
           cga == consoleWithAttrs(cg.consoles, cg.arrays, Len(cg.consoles), a)
       IN /\ sinks' = sinks \o <<rag.h, rga.h>>
          /\ chans' = rga.chans
          /\ workers' = rga.workers
          /\ consoles' = cga.consoles
          /\ arrays' = cga.arrays
          /\ probe' = [fn |-> "derived", ops |-> probe.ops, c |-> probe.c, a |-> a,
                       g |-> g, rag |-> Len(sinks) + 1, rga |-> Len(sinks) + 2,
                       cag |-> Len(cag.consoles), cga |-> Len(cga.consoles),
                       kind |-> "none", o1 |-> <<>>, o2 |-> <<>>]
  /\ UNCHANGED <<requests, out, multis, pc, frame, calls, vlCalls, accepted, dropped,
                 enq, defaultLogger, logFile, closed, bufs, pool>>

\* what a Handle call gave: its error, and the payload it enqueued if any
HandleOutput(res, q) ==
  [err |-> res.err,
   body |-> IF ChanLen(res.q) > ChanLen(q) THEN ChanAt(res.q, ChanLen(res.q)).body
            ELSE <<>>]

\* the application hands one record to the two derived Victoria Logs
\* handlers, one after the other
HandleBothRemote(p) ==
  /\ probe.fn = "derived"
  /\ pc[p] = "idle"
  /\ calls < MaxCalls
  /\ \E shape \in CommuteShapes :
       LET r == NewRecord(calls + 1, shape.level, shape.attrs)
           q == chans[sinks[probe.rag].logChan]
           r1 == VLHandle(sinks[probe.rag], r, q, accepted + 1, p)
           r2 == VLHandle(sinks[probe.rga], r, r1.q, accepted + 2, p)
           took == ChanLen(r2.q) - ChanLen(q)
       IN /\ ~r1.wait /\ ~r2.wait
          /\ chans' = [chans EXCEPT ![sinks[probe.rag].logChan] = r2.q]
          /\ accepted' = accepted + took
          /\ enq' = enq \o [i \in 1..took |-> ChanAt(r2.q, ChanLen(q) + i)]
          /\ probe' = [probe EXCEPT !.kind = "remote", !.o1 = <<HandleOutput(r1, q)>>,
                                    !.o2 = <<HandleOutput(r2, r1.q)>>]
  /\ calls' = calls + 1
  /\ vlCalls' = vlCalls + 2
  /\ UNCHANGED <<sinks, workers, requests, consoles, out, multis, pc, frame, dropped,
                 arrays, defaultLogger, logFile, closed, bufs, pool>>

\* the application hands one record to the two derived console handlers,
\* one after the other
HandleBothConsole(p) ==
  /\ probe.fn = "derived"
  /\ pc[p] = "idle"
  /\ calls < MaxCalls
  /\ \E shape \in CommuteShapes, werr \in BOOLEAN :
       LET r == NewRecord(calls + 1, shape.level, shape.attrs)
           h1 == consoles[probe.cag]
           h2 == consoles[probe.cga]
           r1 == consoleHandle(h1, r, out[h1.out], werr)
           r2 == consoleHandle(h2, r, r1.out, werr)
       IN /\ out' = [out EXCEPT ![h1.out] = r2.out]
          /\ probe' = [probe EXCEPT !.kind = "console",
                         !.o1 = <<[err |-> r1.err,
                                   line |-> SubSeq(r1.out, Len(out[h1.out]) + 1, Len(r1.out))]>>,
                         !.o2 = <<[err |-> r2.err,
                                   line |-> SubSeq(r2.out, Len(r1.out) + 1, Len(r2.out))]>>]
  /\ calls' = calls + 1
  /\ UNCHANGED <<sinks, chans, workers, requests, consoles, multis, pc, frame, vlCalls,
                 accepted, dropped, enq, arrays, defaultLogger, logFile, closed, bufs,
                 pool>>

NextCommute ==
  \/ DeriveBothOrders
  \/ HandleBothRemote("p1")
  \/ HandleBothConsole("p1")

SpecCommute == InitCommute /\ [][NextCommute]_vars

\* ------------------------------------------------------------ properties
Root == sinks[1]
RootChan == chans[Root.logChan]
ReqMsg(i) == requests[i].body[2]["_msg"].val
Failures == {"newreq_err", "do_err", "non2xx"}
AtRemoteReturn(p) == pc[p] = "ret" /\ frame[p].kind = "remote"
AtMultiReturn(p) == pc[p] = "ret" /\ frame[p].kind = "multi"
InTail(q, msg) == \E k \in DOMAIN q.tail : q.tail[k].body[2]["_msg"].val = msg

\* C1: in every reachable state (channel empty, partly filled or full,
\* endpoint valid or not, worker receiving or inside client.Do) a call of
\* VictoriaLogsHandler.Handle that a goroutine not already inside a call
\* can make, on any sink of the tree and with any record,
\* does not wait, and returns nil when the record serializes; and every
\* such call that has returned did return nil.
C1_HandleNeverBlocksNorFails ==
  /\ \A p \in Producers : (pc[p] = "idle" /\ calls < MaxCalls) =>
     \A s \in DOMAIN sinks, shape \in RecordShapes :
       \A a \in {VLHandle(sinks[s], NewRecord(calls + 1, shape.level, shape.attrs),
                          chans[sinks[s].logChan], accepted + 1, p)} :
         /\ ~a.wait
         /\ a.err # Nil =>
              ~Encodable(BuildEntry(sinks[s],
                                    NewRecord(calls + 1, shape.level, shape.attrs)))
  /\ \A p \in Producers :
       (AtRemoteReturn(p) /\ frame[p].ret # Nil)
         => ~Encodable(BuildEntry(sinks[frame[p].h], frame[p].r))

\* a call returned nil on a full channel while the worker was inside client.Do
C1_Witness ==
  \E p \in Producers :
    /\ AtRemoteReturn(p) /\ frame[p].ret = Nil /\ frame[p].r.msg \in dropped
    /\ ChanLen(RootChan) = QueueCap
    /\ workers[1].pc = "do"

\* C2: a Handle call that serializes its record puts the payload on the
\* channel exactly when the channel holds fewer than QueueCap payloads at
\* that moment; otherwise the channel is left as it was and the payload is
\* dropped; and no dropped payload is ever queued or sent.
C2_EnqueueIffRoom ==
  /\ [][\A p \in Producers :
          (pc[p] = "idle" /\ pc'[p] = "ret" /\ frame'[p].kind = "remote"
             /\ frame'[p].ret = Nil)
          => LET c == sinks[frame'[p].h].logChan
                 m == frame'[p].r.msg
             IN IF ChanLen(chans[c]) < QueueCap
                THEN /\ ChanLen(chans'[c]) = ChanLen(chans[c]) + 1
                     /\ ChanAt(chans'[c], ChanLen(chans'[c])).body[2]["_msg"].val = m
                     /\ m \notin dropped'
                ELSE /\ chans'[c] = chans[c]
                     /\ m \in dropped']_vars
  /\ [](/\ \A i \in DOMAIN requests : ReqMsg(i) \notin dropped
        /\ \A c \in DOMAIN chans : \A m \in dropped : ~InTail(chans[c], m))

\* a payload was dropped, a request has been issued since and a later
\* payload was accepted
C2_Witness ==
  /\ dropped # {}
  /\ Len(requests) >= 1
  /\ \E k \in DOMAIN enq : \A m \in dropped : enq[k].body[2]["_msg"].val > m

RECURSIVE SumLen(_, _)
SumLen(cs, n) == IF n = 0 THEN 0 ELSE ChanLen(cs[n]) + SumLen(cs, n - 1)

C4_FifoOrder ==
  /\ \A i, j \in DOMAIN requests :
       i < j => /\ requests[i].seq < requests[j].seq
                /\ requests[i].by = requests[j].by => ReqMsg(i) < ReqMsg(j)
  /\ \A c \in DOMAIN chans :
       LET q == chans[c]
       IN /\ \A k, l \in DOMAIN q.tail : k < l => q.tail[k].seq < q.tail[l].seq
          /\ \A k \in DOMAIN q.tail : q.tail[k].seq > q.hi
          /\ ChanLen(q) > 0 =>
               \A i \in DOMAIN requests :
                 requests[i].chan = c => requests[i].seq < ChanAt(q, 1).seq

\* two calls of one producer were both accepted and both sent
C4_Witness ==
  /\ Len(requests) >= 2
  /\ \E i, j \in DOMAIN requests :
       /\ i < j /\ requests[i].by = requests[j].by
       /\ ReqMsg(i) >= 1 /\ ReqMsg(j) >= 1

\* C5: no payload is the body of two requests, whatever the outcome of the
\* first; every request body is a payload that a Handle call enqueued; and
\* there are never more requests than Handle calls.
C5_AtMostOnce ==
  /\ \A i, j \in DOMAIN requests : i # j => requests[i].seq # requests[j].seq
  /\ \A i \in DOMAIN requests :
       LET hi == chans[requests[i].chan].hi
       IN \/ /\ requests[i].seq <= hi
             /\ requests[i].body = BurstPayload(requests[i].seq, hi).body
          \/ \E k \in DOMAIN enq :
               enq[k].seq = requests[i].seq /\ enq[k].body = requests[i].body
  /\ Len(requests) <= vlCalls

\* a request failed and the worker went on to the next payload
C5_Witness ==
  /\ Len(requests) >= 2
  /\ workers[1].pc = "do"
  /\ workers[1].last \in {"do_err", "non2xx"}

\* C6: every request body is one unit of two lines, the create line and one
\* document; and once the worker has drained the channel towards an
\* endpoint it can build requests for, there are exactly as many requests
\* as accepted payloads.
C6_OnePayloadPerRequest ==
  /\ \A i \in DOMAIN requests :
       /\ Len(requests[i].body) = 2
       /\ requests[i].body[1] = createLineBytes
       /\ "_msg" \in DOMAIN requests[i].body[2]
  /\ \A w \in DOMAIN workers :
       (URLValid(workers[w].endpoint) /\ workers[w].pc = "recv"
          /\ ChanLen(chans[workers[w].chan]) = 0)
         => Len(requests) = accepted

\* two records were accepted and the worker has drained the channel
C6_Witness ==
  /\ accepted = 2
  /\ ChanLen(RootChan) = 0
  /\ workers[1].pc = "recv"
  /\ Len(requests) = 2

\* C7: the worker is always either receiving or inside client.Do, never
\* ended; after every failed attempt it is receiving again, and a worker
\* that is receiving takes the next payload when there is one.
C7_WorkerNeverStops ==
  /\ [](\A w \in DOMAIN workers :
          /\ workers[w].pc \in {"recv", "do"}
          /\ (workers[w].pc = "recv" /\ workers[w].taken < MaxSends
                /\ ChanLen(chans[workers[w].chan]) > 0) => ENABLED WorkerSend(w))
  /\ [][\A w \in DOMAIN workers :
          (w \in DOMAIN workers' /\ workers'[w].last # workers[w].last
             /\ workers'[w].last \in Failures) => workers'[w].pc = "recv"]_vars

\* a request failed and the worker has sent the next payload
C7_Witness ==
  /\ workers[1].last \in {"do_err", "non2xx"}
  /\ workers[1].pc = "do"
  /\ workers[1].taken >= 2

\* C8: one worker per constructed handler, whatever handlers were derived;
\* each channel has exactly one worker, so at most one request of a channel
\* is inside client.Do.
C8_SingleConsumer ==
  /\ Len(workers) = 1
  /\ \A c \in DOMAIN chans :
       /\ Cardinality({w \in DOMAIN workers : workers[w].chan = c}) = 1
       /\ Cardinality({w \in DOMAIN workers :
                          workers[w].chan = c /\ workers[w].pc = "do"}) <= 1

\* handlers were derived, a request is inside client.Do and payloads wait
C8_Witness ==
  /\ Len(sinks) >= 2
  /\ workers[1].pc = "do"
  /\ ChanLen(RootChan) > 0
  /\ \E p \in Producers : AtRemoteReturn(p) /\ frame[p].h >= 2

\* C9: every sink of the tree has the root's channel and endpoint; every
\* accepted payload is on that channel or was taken from it by the root's
\* worker, and every request goes to the root's endpoint in enqueue order.
C9_DerivedShareQueue ==
  /\ \A s \in DOMAIN sinks :
       /\ sinks[s].logChan = Root.logChan
       /\ sinks[s].endpoint = Root.endpoint
  /\ \A w \in DOMAIN workers : workers[w].chan = Root.logChan
  /\ \A i \in DOMAIN requests :
       /\ requests[i].chan = Root.logChan
       /\ requests[i].url = Root.endpoint
  /\ \A i, j \in DOMAIN requests : i < j => requests[i].seq < requests[j].seq
  /\ accepted = ChanLen(RootChan) + workers[1].taken

\* a record handled through a derived sink and a record handled through the
\* root were sent, in the order they were enqueued
C9_Witness ==
  /\ Len(sinks) >= 2
  /\ \E i, j \in DOMAIN requests :
       /\ "svc" \in DOMAIN requests[i].body[2] /\ ReqMsg(i) >= 1
       /\ "svc" \notin DOMAIN requests[j].body[2] /\ ReqMsg(j) >= 1

CountOut(m) == Cardinality({k \in DOMAIN out[1] : out[1][k].msg = m})
CountReq(m) == Cardinality({i \in DOMAIN requests : ReqMsg(i) = m})
CountEnq(m) == Cardinality({k \in DOMAIN enq : enq[k].body[2]["_msg"].val = m})
CountQueued(m) ==
  Cardinality({k \in DOMAIN RootChan.tail : RootChan.tail[k].body[2]["_msg"].val = m})
Has(errs, e) == \E k \in DOMAIN errs : errs[k] = e

\* every member enabled for the record's level was invoked once, every
\* other member not at all
InvokedAsEnabled(f) ==
  \A m \in DOMAIN multis[f.h].handlers :
    f.inv[m] = IF HEnabled(multis[f.h].handlers[m], f.r.level) THEN 1 ELSE 0

\* C10 as stated: at the return of multiHandler.Handle every enabled member
\* was invoked exactly once and no other, and a record that both members
\* accept, handled without an error, is exactly once in the console output
\* and exactly once on its way to the endpoint (queued or sent).
C10_ExactlyOnceEverywhere ==
  \A p \in Producers :
    AtMultiReturn(p) =>
      /\ InvokedAsEnabled(frame[p])
      /\ (frame[p].ret = Nil /\ frame[p].inv = <<1, 1>>) =>
           /\ CountOut(frame[p].r.msg) = 1
           /\ CountQueued(frame[p].r.msg) + CountReq(frame[p].r.msg) = 1

\* C10 amended: at the return of multiHandler.Handle every enabled member
\* was invoked exactly once and no other, whatever errors were returned;
\* the record is in the console output once if the console member was
\* invoked and its write succeeded and not at all otherwise; it was accepted
\* by the channel once if the remote member serialized it and the channel
\* had room and not at all otherwise; and it is sent at most once.
C10_InvokedOncePerEnabledMember ==
  \A p \in Producers :
    AtMultiReturn(p) =>
      LET f == frame[p]
          m == f.r.msg
      IN /\ InvokedAsEnabled(f)
         /\ CountOut(m) = IF f.inv[1] = 1 /\ ~Has(f.errs, WriteErr) THEN 1 ELSE 0
         /\ CountEnq(m) = IF f.inv[2] = 1 /\ ~Has(f.errs, EncodeErr) /\ m \notin dropped
                          THEN 1 ELSE 0
         /\ CountReq(m) <= CountEnq(m)
         /\ f.ret = (IF Len(f.errs) > 0 THEN f.errs[1] ELSE Nil)

\* the console member failed, the remote member was still invoked and its
\* payload has been sent
C10_Witness ==
  \E p \in Producers :
    /\ AtMultiReturn(p)
    /\ frame[p].errs = <<WriteErr>>
    /\ frame[p].inv = <<1, 1>>
    /\ CountOut(frame[p].r.msg) = 0
    /\ CountReq(frame[p].r.msg) = 1

\* C11: at the return of multiHandler.Handle on the console+remote
\* dispatcher the result is the error of the first member, in member order,
\* whose Handle failed (the console member failed when it was invoked and
\* left no line; the remote member failed when it was invoked and the entry
\* does not serialize); it is nil exactly when no invoked member failed;
\* and when the console member failed the remote member was still invoked.
C11_FirstErrorWins ==
  \A p \in Producers :
    AtMultiReturn(p) =>
      LET f == frame[p]
          cFail == f.inv[1] = 1 /\ CountOut(f.r.msg) = 0
          rFail == f.inv[2] = 1 /\ ~Encodable(BuildEntry(sinks[1], f.r))
      IN /\ f.ret = (IF cFail THEN WriteErr ELSE IF rFail THEN EncodeErr ELSE Nil)
         /\ (f.ret = Nil) <=> (~cFail /\ ~rFail)
         /\ cFail => f.inv[2] = 1
         /\ Len(f.errs) = (IF cFail THEN 1 ELSE 0) + (IF rFail THEN 1 ELSE 0)

\* both members failed: the console's write error is returned and the
\* remote member's encode error, collected after it, is discarded
C11_Witness ==
  \E p \in Producers :
    /\ AtMultiReturn(p)
    /\ frame[p].errs = <<WriteErr, EncodeErr>>
    /\ frame[p].inv = <<1, 1>>
    /\ frame[p].ret = WriteErr

\* C12: multiHandler.Enabled(level) is true exactly when at least one
\* member's Enabled(level) is true; on a multiHandler with no members it is
\* false for every level.
C12_EnabledIffAnyMember ==
  probe.fn = "multi" =>
    LET hs == multis[probe.h].handlers
    IN /\ probe.res <=> (\E i \in DOMAIN hs : HEnabled(hs[i], probe.level))
       /\ Len(hs) = 0 => ~probe.res

\* the first member rejects the level, the second accepts it, and Enabled
\* answered true
C12_Witness ==
  /\ probe.fn = "multi" /\ probe.res
  /\ Len(multis[probe.h].handlers) = 2
  /\ ~HEnabled(multis[probe.h].handlers[1], probe.level)
  /\ HEnabled(multis[probe.h].handlers[2], probe.level)

\* C14: consoleHandler.Enabled(L) on a handler built with minimum level m
\* is true exactly when L >= m, and on a handler built without a Level
\* exactly when L >= 0 (Info).
C14_EnabledIffAtLeastMin ==
  probe.fn = "console" =>
    LET o == consoles[probe.h].opts
    IN /\ o.hasLevel => (probe.res <=> probe.level >= o.Level)
       /\ ~o.hasLevel => (probe.res <=> probe.level >= 0)
       /\ LevelInfo = 0

\* a handler built with minimum Warn was asked about Warn and accepted it
C14_Witness ==
  /\ probe.fn = "console" /\ probe.res
  /\ consoles[probe.h].opts.hasLevel
  /\ consoles[probe.h].opts.Level = LevelWarn
  /\ probe.level = LevelWarn

Dotted(g, k) == IF g = "" THEN k ELSE g \o "." \o k
AttrsOf(op, arg) == IF op = "attrs" THEN arg ELSE <<>>
GroupOf(op, arg, g) == IF op = "group" THEN Dotted(g, arg) ELSE g
DeriveArgs == {[op |-> "attrs", arg |-> a] : a \in TreeAttrs}
                \cup {[op |-> "group", arg |-> n] : n \in GroupNames}

\* C13: a step that makes a multiHandler by WithAttrs or WithGroup on
\* multis[m] makes one with as many members, the i-th being a new handler
\* of the kind of the receiver's i-th member whose binding state is that
\* member's with the attributes appended or the group name joined, on the
\* same stream, channel and endpoint; no multiHandler that existed
\* changes, and no member's attributes or group change.
C13_DispatcherDerivationMapsMembers ==
  [][Len(multis') = Len(multis) + 1 =>
      /\ \E m \in DOMAIN multis, d \in DeriveArgs :
           LET old == multis[m].handlers
               new == multis'[Len(multis')].handlers
           IN /\ Len(new) = Len(old)
              /\ \A i \in DOMAIN old :
                   /\ new[i].kind = old[i].kind
                   /\ IF old[i].kind = "console"
                      THEN LET h == consoles[old[i].ix]
                               h2 == consoles'[new[i].ix]
                           IN /\ new[i].ix > Len(consoles)
                              /\ SliceValIn(arrays', h2.attrs)
                                   = SliceVal(h.attrs) \o AttrsOf(d.op, d.arg)
                              /\ h2.group = GroupOf(d.op, d.arg, h.group)
                              /\ h2.out = h.out /\ h2.opts = h.opts
                      ELSE LET h == sinks[old[i].ix]
                               h2 == sinks'[new[i].ix]
                           IN /\ new[i].ix > Len(sinks)
                              /\ h2.attrs = h.attrs \o AttrsOf(d.op, d.arg)
                              /\ h2.group = GroupOf(d.op, d.arg, h.group)
                              /\ h2.logChan = h.logChan /\ h2.endpoint = h.endpoint
      /\ \A m \in DOMAIN multis : multis'[m] = multis[m]
      /\ \A c \in DOMAIN consoles :
           /\ SliceValIn(arrays', consoles'[c].attrs) = SliceVal(consoles[c].attrs)
           /\ consoles'[c].group = consoles[c].group
      /\ \A s \in DOMAIN sinks : sinks'[s] = sinks[s]]_vars

\* a multiHandler was derived with attributes from the console+remote
\* dispatcher, and one more console handler was derived directly
C13_Witness ==
  /\ Len(multis) = 2
  /\ multis[2].handlers[1].kind = "console" /\ multis[2].handlers[2].kind = "remote"
  /\ SliceVal(consoles[multis[2].handlers[1].ix].attrs) # <<>>
  /\ sinks[multis[2].handlers[2].ix].attrs # <<>>
  /\ Len(consoles) = 3

\* C15: no step changes the attributes or the group of a console handler
\* or of a remote handler that exists; and the handler a WithAttrs call
\* returns, also when another goroutine derives from the same receiver at
\* the same time, holds the receiver's attributes followed by the
\* attributes of that call and no others; the slice of a console handler
\* never has spare capacity that an append could write into.
C15_DerivationNeverChangesReceiver ==
  /\ [](\A c \in DOMAIN consoles : consoles[c].attrs.len = consoles[c].attrs.cap)
  /\ [][/\ \A c \in DOMAIN consoles :
             /\ c \in DOMAIN consoles'
             /\ SliceValIn(arrays', consoles'[c].attrs) = SliceVal(consoles[c].attrs)
             /\ consoles'[c].group = consoles[c].group
        /\ \A s \in DOMAIN sinks :
             /\ s \in DOMAIN sinks'
             /\ sinks'[s].attrs = sinks[s].attrs
             /\ sinks'[s].group = sinks[s].group
        /\ \A p \in Producers :
             (pc[p] = "wa_copy" /\ pc'[p] = "idle") =>
               LET h == consoles[frame[p].h]
                   h2 == consoles'[Len(consoles')]
               IN /\ Len(consoles') = Len(consoles) + 1
                  /\ SliceValIn(arrays', h2.attrs) = SliceVal(h.attrs) \o frame[p].attrs
                  /\ h2.group = h.group
        /\ \A s \in DOMAIN sinks' :
             s \notin DOMAIN sinks =>
               \E s0 \in DOMAIN sinks, d \in DeriveArgs \cup
                        {[op |-> "attrs", arg |-> a] : a \in BoundAttrs} :
                 /\ sinks'[s].attrs = sinks[s0].attrs \o AttrsOf(d.op, d.arg)
                 /\ sinks'[s].group = GroupOf(d.op, d.arg, sinks[s0].group)]_vars

\* two goroutines are inside WithAttrs on the same console handler with
\* different attributes, and a remote handler has been derived
C15_Witness ==
  /\ pc["p1"] = "wa_copy" /\ pc["p2"] = "wa_copy"
  /\ frame["p1"].h = frame["p2"].h
  /\ frame["p1"].attrs # frame["p2"].attrs
  /\ Len(sinks) = 2

InWrite(p) == pc[p] \in {"c_in", "c_out"}

\* C16: on each console handler at most one Handle call is between its
\* Lock and its Unlock (formatting and writing), the mutex is held by that
\* call and by no other, and a line is in the output only through such a call.
C16_HandleSerializedPerInstance ==
  /\ \A c \in DOMAIN consoles :
       /\ Cardinality({p \in Producers : InWrite(p) /\ frame[p].h = c}) <= 1
       /\ \A p \in Producers : (InWrite(p) /\ frame[p].h = c) <=> consoles[c].mu = p
  /\ \A w \in DOMAIN out : Len(out[w]) <= calls

\* a call is formatting and writing on a console handler while another
\* call on the same handler waits in Lock
C16_Witness ==
  \E p, q \in Producers :
    /\ pc[p] = "c_in" /\ pc[q] = "c_lock"
    /\ frame[p].h = frame[q].h

\* C17: of the Handle calls on console handlers that write to one stream,
\* at most one is between its Lock and the end of its Write.
C17_StreamMutualExclusion ==
  \A w \in DOMAIN out :
    Cardinality({p \in Producers : pc[p] = "c_in" /\ consoles[frame[p].h].out = w}) <= 1

DocAtReturn ==
  /\ pc["p1"] = "ret" /\ frame["p1"].kind = "remote" /\ frame["p1"].ret = Nil
  /\ frame["p1"].r.msg \notin dropped /\ Len(enq) > 0
DocOut == enq[Len(enq)].body[2]
DocRec == frame["p1"].r
RECURSIVE ChainGroup(_, _)
ChainGroup(g, ops) ==
  IF ops = <<>> THEN g
  ELSE ChainGroup(IF Head(ops).op = "group" THEN Dotted(g, Head(ops).arg) ELSE g, Tail(ops))
RECURSIVE ChainAttrs(_)
ChainAttrs(ops) ==
  IF ops = <<>> THEN <<>>
  ELSE (IF Head(ops).op = "attrs" THEN Head(ops).arg ELSE <<>>) \o ChainAttrs(Tail(ops))
LevelNameOf(l) ==
  CASE l = -8 -> "TRACE" [] l = -4 -> "DEBUG" [] l = 0 -> "INFO"
    [] l = 4 -> "WARN" [] l = 8 -> "ERROR" [] l = 12 -> "EMERGENCY"
AllAttrs == ChainAttrs(probe.ops) \o DocRec.attrs
KeyCount(as, k) == Cardinality({i \in DOMAIN as : as[i].key = k})

\* C18: the document of every record that Handle enqueued has the fields
\* _msg, _time, level and host, _msg is the record's message, and level is
\* the name of the record's level when that is one of the six named
\* levels, whatever attributes the handler and the record carry.
C18_StandardFields ==
  DocAtReturn =>
    /\ {"_msg", "_time", "level", "host"} \subseteq DOMAIN DocOut
    /\ DocOut["_msg"].val = DocRec.msg
    /\ DocRec.level \in NamedLevels => DocOut["level"].val = LevelNameOf(DocRec.level)

\* C19: the handler reached by a chain of WithAttrs and WithGroup calls
\* puts every non-empty attribute bound along the chain, and every
\* non-empty attribute of the record, under the key made of the group
\* names of the chain in call order, joined by dots, and the attribute's
\* key (the key alone when the chain has no group); an attribute whose key
\* no other attribute has is there with its value.
C19_GroupPrefixedKeys ==
  DocAtReturn =>
    LET g == ChainGroup("", probe.ops)
    IN \A i \in DOMAIN AllAttrs :
         LET a == AllAttrs[i]
         IN ~IsZeroAttr(a) =>
              /\ Dotted(g, a.key) \in DOMAIN DocOut
              /\ (a.kind = "string" /\ KeyCount(AllAttrs, a.key) = 1)
                   => DocOut[Dotted(g, a.key)].val = a.val

\* after WithAttrs and then WithGroup("req"), or after WithGroup("req") and
\* WithGroup("db"), a record with attribute k was enqueued
C19_Witness ==
  /\ DocAtReturn
  /\ \/ {"req.svc", "req.k"} \subseteq DOMAIN DocOut
     \/ "req.db.k" \in DOMAIN DocOut

RECURSIVE NestedAs(_, _)
NestedAs(sub, as) ==
  \A i \in DOMAIN as :
    /\ as[i].key \in DOMAIN sub
    /\ IF as[i].kind = "group"
       THEN sub[as[i].key].kind = "map" /\ NestedAs(sub[as[i].key].val, as[i].val)
       ELSE sub[as[i].key].val = as[i].val

\* C20 as stated: a group attribute g with child k = v gives the top-level
\* entry prefix.g.k = v, and the document has no nested sub-document.
C20_GroupsFlattened ==
  DocAtReturn =>
    LET g == ChainGroup("", probe.ops)
    IN /\ \A i \in DOMAIN AllAttrs :
            AllAttrs[i].kind = "group" =>
              \A j \in DOMAIN AllAttrs[i].val :
                LET c == AllAttrs[i].val[j]
                    key == Dotted(g, AllAttrs[i].key \o "." \o c.key)
                IN c.kind = "string" => (key \in DOMAIN DocOut /\ DocOut[key].val = c.val)
       /\ \A k \in DOMAIN DocOut : DocOut[k].kind # "map"

\* C20 amended: a group attribute g gives one entry under the key prefix.g
\* whose value is a sub-document that holds each child under the child's
\* own key, without prefix, a child group being a sub-document again; and
\* there is no entry prefix.g.k.
C20_GroupsNested ==
  DocAtReturn =>
    LET g == ChainGroup("", probe.ops)
    IN \A i \in DOMAIN AllAttrs :
         LET a == AllAttrs[i]
         IN a.kind = "group" =>
              /\ Dotted(g, a.key) \in DOMAIN DocOut
              /\ DocOut[Dotted(g, a.key)].kind = "map"
              /\ NestedAs(DocOut[Dotted(g, a.key)].val, a.val)
              /\ DOMAIN DocOut[Dotted(g, a.key)].val = {a.val[j].key : j \in DOMAIN a.val}
              /\ \A j \in DOMAIN a.val :
                   Dotted(g, a.key \o "." \o a.val[j].key) \notin DOMAIN DocOut

\* a handler with groups req and db enqueued a record whose attribute g
\* holds the group h that holds k
C20_Witness ==
  /\ DocAtReturn
  /\ "req.db.g" \in DOMAIN DocOut
  /\ DocOut["req.db.g"].kind = "map"
  /\ "h" \in DOMAIN DocOut["req.db.g"].val
  /\ DocOut["req.db.g"].val["h"].kind = "map"

\* C21 (remote part): the document of an enqueued record holds every
\* non-empty plain attribute of the handler and of the record with its own
\* value under its prefixed key, also when another attribute of the same
\* call has the same key: no attribute is replaced by a later one.
C21_DuplicatesAllEmitted ==
  DocAtReturn =>
    LET g == ChainGroup("", probe.ops)
    IN \A i \in DOMAIN AllAttrs :
         LET a == AllAttrs[i]
         IN (a.kind = "string" /\ ~IsZeroAttr(a)) =>
              /\ Dotted(g, a.key) \in DOMAIN DocOut
              /\ DocOut[Dotted(g, a.key)].val = a.val

\* C22: the line a console handler has written for a record holds, after
\* the message, the attributes bound to the handler in the order they were
\* bound, and after them the attributes of the record.
C22_BoundBeforeRecord ==
  \A p \in Producers :
    (pc[p] = "c_out" /\ frame[p].ret = Nil) =>
      LET h == consoles[frame[p].h]
          r == frame[p].r
      IN \E k \in DOMAIN out[h.out] :
           /\ out[h.out][k].msg = r.msg
           /\ out[h.out][k].attrs =
                appendAttrs(appendAttrs("", SliceVal(h.attrs), h.group), r.attrs, h.group)

\* C23: the record that an exported logging function hands to the handler
\* carries the program counter of the application function that called
\* the exported function, whichever exported function that is: a leveled
\* one, Log, or a printf-style one that calls a leveled one.
C23_CallSiteIsApplication ==
  \A p \in Producers :
    (pc[p] \in {"mh_loop", "ret"} /\ frame[p].kind # "skipped") =>
      frame[p].r.pc = pcOf(AppFunction)

\* C24: when VICTORIA_LOGS_ENDPOINT is not set or empty, init builds no
\* Victoria Logs handler: the dispatcher has no remote member, there is no
\* worker goroutine, and no request is ever issued.
C24_NoRemoteWithoutEndpoint ==
  probe.env = "" =>
    /\ \A m \in DOMAIN multis :
         \A i \in DOMAIN multis[m].handlers : multis[m].handlers[i].kind # "remote"
    /\ workers = <<>>
    /\ requests = <<>>

C26_StalledRequestEnds ==
  (workers[1].pc = "do") ~> (workers[1].pc = "recv")

Answering == probe.mode = "answers" /\ URLValid(sinks[1].endpoint)
InEnq(n) == \E k \in DOMAIN enq : enq[k].seq = n
Sent(n) == \E i \in DOMAIN requests : requests[i].seq = n

\* C29: with a worker that is scheduled fairly and an endpoint that
\* answers every request, every payload the channel accepted is
\* eventually the body of a request, and from some time on, when the
\* producers have stopped, the channel stays empty.
C29_AcceptedEventuallySent ==
  /\ \A n \in 1..MaxCalls : (Answering /\ InEnq(n)) ~> Sent(n)
  /\ <>[](Answering => ChanLen(chans[1]) = 0)

\* both producers had a payload accepted, both payloads were sent to the
\* answering endpoint and the channel is empty
C29_Witness ==
  /\ Answering
  /\ accepted = 2
  /\ \A n \in 1..2 : InEnq(n) /\ Sent(n)
  /\ {enq[k].by : k \in DOMAIN enq} = Producers
  /\ ChanLen(chans[1]) = 0

CloseStep == probe'.fn = "Close" /\ probe'.n = probe.n + 1
CloseFrame ==
  /\ chans' = chans /\ workers' = workers /\ closed' = closed /\ sinks' = sinks
  /\ requests' = requests /\ enq' = enq /\ dropped' = dropped
HandledAfterClose(p) ==
  /\ probe.fn = "Close" /\ AtRemoteReturn(p) /\ frame[p].r.msg > probe.at
HandledNormally(p) ==
  \/ frame[p].ret = EncodeErr
  \/ frame[p].ret = Nil /\ frame[p].r.msg \in dropped
  \/ frame[p].ret = Nil /\ \E k \in DOMAIN enq : enq[k].body[2]["_msg"].val = frame[p].r.msg

EnqBody(n) == (CHOOSE k \in DOMAIN enq : enq[k].seq = n)
Serialized(n) == enq[EnqBody(n)].body

\* C28: the bytes of a payload in the channel are the bytes serialized for
\* its record for as long as it is queued, whatever the calls that take
\* the same buffers from the pool do afterwards or meanwhile, and the body
\* of every request is the serialization of the record it was made for.
C28_PayloadByValue ==
  /\ \A c \in DOMAIN chans :
       \A k \in DOMAIN chans[c].tail :
         bufs[chans[c].tail[k].body] = Serialized(chans[c].tail[k].seq)
  /\ \A i \in DOMAIN requests : requests[i].body = Serialized(requests[i].seq)

\* the only buffer made so far was put back by the call whose payload is
\* in the channel, and a later call has taken it and written another
\* record into it
C28_Witness ==
  \E p \in Producers :
    /\ pc[p] = "p_send"
    /\ frame[p].buf = 1
    /\ Len(bufs) = 2
    /\ 1 \notin pool
    /\ \E k \in DOMAIN chans[1].tail :
         /\ chans[1].tail[k].body = 2
         /\ bufs[2] = Serialized(chans[1].tail[k].seq)
         /\ bufs[1] # bufs[2]

Binding(h) == [attrs |-> SliceVal(h.attrs), group |-> h.group]

\* C30: on the console handler and on the Victoria Logs handler,
\* h.WithAttrs(a).WithGroup(g) and h.WithGroup(g).WithAttrs(a) have the same
\* attributes and the same group, and a record handed to both gives the
\* same line, or the same document with the same payload bytes apart from
\* the enqueue number; the bound attributes of a carry the prefix with g.
C30_WithAttrsWithGroupCommute ==
  probe.fn = "derived" =>
    /\ sinks[probe.rag] = sinks[probe.rga]
    /\ Binding(consoles[probe.cag]) = Binding(consoles[probe.cga])
    /\ sinks[probe.rag].attrs = ChainAttrs(probe.ops) \o probe.a
    /\ sinks[probe.rag].group = Dotted(ChainGroup("", probe.ops), probe.g)
    /\ Binding(consoles[probe.cag]) = [attrs |-> sinks[probe.rag].attrs,
                                       group |-> sinks[probe.rag].group]
    /\ probe.o1 = probe.o2
    /\ (probe.kind = "remote" /\ probe.o1[1].err = Nil) =>
         \A i \in DOMAIN probe.a :
           Dotted(sinks[probe.rag].group, probe.a[i].key) \in DOMAIN probe.o1[1].body[2]

\* a record with an attribute was handed to the handlers derived in both
\* orders from a handler with a group and a bound attribute, by the
\* Victoria Logs handlers, and both enqueued a document
C30_Witness ==
  /\ probe.fn = "derived"
  /\ probe.kind = "remote"
  /\ ChainGroup("", probe.ops) # ""
  /\ ChainAttrs(probe.ops) # <<>>
  /\ probe.o1[1].err = Nil
  /\ probe.o1[1].body # <<>>
  /\ probe.o2[1].body # <<>>
  /\ "k" \in {probe.a[i].key : i \in DOMAIN probe.a}

====
